---- MODULE Spec2Model ----
(***************************************************************************)
(* The expense tracker's backend: the authorization gate (protect), the    *)
(* expense router, the express-validator chains, the error handler and     *)
(* the expense and auth controllers over the users and expenses tables;    *)
(* and its mobile client: AuthContext, ExpensesProvider, the api module's  *)
(* interceptors and the root route guard.                                  *)
(*                                                                         *)
(* Conventions.  An optional value (a header, a body field, a query        *)
(* parameter, a nullable column) is <<>> when absent and <<v>> when        *)
(* present.  A string that the code trims or tests for emptiness is a      *)
(* sequence of one-character strings.  An instant is a number of           *)
(* milliseconds since 2024-01-01T00:00:00.000Z.  An expense id is the      *)
(* ordinal of the row's insertion (the store assigns a fresh UUID to each  *)
(* row and never reuses one).                                              *)
(***************************************************************************)
EXTENDS Integers, Sequences, FiniteSets, Bags, TLC

VARIABLES
    users,      \* the users table: a set of rows [id, email, name, password]
    expenses,   \* the expenses table: a set of rows [id, userId, amount, category, note, date,
                \* createdAt]
    nextId,     \* the ordinal of the next expense row
    inflight,   \* bag of requests suspended between two store statements
    outcome,    \* the request settled last: what it was and how it was answered
    secureStore, \* the device's SecureStore: the items userToken and userInfo
    session,    \* the mobile client's AuthContext state and the route it shows
    provider    \* the mobile client's ExpensesProvider state and its calls in progress

vars == <<users, expenses, nextId, inflight, outcome, secureStore, session, provider>>

-----------------------------------------------------------------------------
(* Bounds *)

\* expense rows the store may ever insert in a run of Spec
MaxExpenses == 2
\* requests that may be suspended at the same time
MaxInFlight == 2
\* rows of the table the list specification starts from
MaxListRows == 26

-----------------------------------------------------------------------------
(* Values *)

None == <<>>
Some(x) == <<x>>
IsSome(o) == Len(o) > 0
Val(o) == o[1]

Min(a, b) == IF a < b THEN a ELSE b
Max(a, b) == IF a < b THEN b ELSE a

\* String.prototype.trim as express-validator's trim() sanitizer applies it
RECURSIVE TrimLeft(_)
TrimLeft(s) == IF Len(s) > 0 /\ Head(s) = " " THEN TrimLeft(Tail(s)) ELSE s

RECURSIVE TrimRight(_)
TrimRight(s) ==
    IF Len(s) > 0 /\ s[Len(s)] = " " THEN TrimRight(SubSeq(s, 1, Len(s) - 1)) ELSE s

Trim(s) == TrimRight(TrimLeft(s))

\* setUTCHours(0,0,0,0) and setUTCHours(23,59,59,999) work on a UTC day of this many ms
MsPerDay == 86400000

-----------------------------------------------------------------------------
(* Responses and errors *)

NoField == "<absent>"

\* res.status(code).json({status, message}) ; rows = the expenses in data,
\* pagination = data.pagination, summary = data.summary and total = data.total
\* when present, errors = the list of violations in the body, user =
\* data.user and token = data.token of the auth endpoints
Response(code, status, message) ==
    [code |-> code, status |-> status, message |-> message,
     rows |-> <<>>, pagination |-> None, summary |-> <<>>, total |-> None, errors |-> <<>>,
     user |-> None, token |-> None]

\* class AppError: status is 'fail' for 4xx and 'error' otherwise
AppError(message, statusCode) ==
    [name |-> "Error", statusCode |-> statusCode,
     status |-> IF statusCode \div 100 = 4 THEN "fail" ELSE "error",
     message |-> message, errors |-> <<>>]

\* an error the data-access layer throws (a failed statement): it carries
\* neither statusCode nor status
StoreError(message) ==
    [name |-> "PrismaClientKnownRequestError", statusCode |-> 0, status |-> "",
     message |-> message, errors |-> <<>>]

\* the error handler registered last in app.ts.  It copies the error's own
\* enumerable properties ({...err}); name is not one of them, so the branches
\* on error.name never fire, and code, keyValue and Joi details are carried
\* by no error of this backend.  The body it sends holds status and message:
\* err.errors is not written to it.
errorHandler(err) ==
    LET statusCode == IF err.statusCode = 0 THEN 500 ELSE err.statusCode
        status == IF err.status = "" THEN "error" ELSE err.status
    IN  Response(statusCode, status,
                 IF err.message = "" THEN "Something went wrong" ELSE err.message)

-----------------------------------------------------------------------------
(* Tokens and the authorization gate *)

UserIds == {"u1", "u2", "u3"}

\* what a bearer credential can be: a token this server signed and that is
\* still valid, one it signed that is past its expiry, one whose signature
\* does not verify, and a string that is no JWT at all
TokenKinds == {"ok", "expired", "badsig", "malformed"}

Tokens == [kind : TokenKinds \ {"malformed"}, id : UserIds]
              \cup {[kind |-> "malformed", id |-> "u1"]}

\* jwt.verify(token, secret): the payload, or the class of the error thrown
jwtVerify(token) ==
    CASE token.kind = "ok" -> [ok |-> TRUE, id |-> token.id, error |-> "none"]
      [] token.kind = "expired" -> [ok |-> FALSE, id |-> token.id, error |-> "TokenExpiredError"]
      [] OTHER -> [ok |-> FALSE, id |-> token.id, error |-> "JsonWebTokenError"]

\* error instanceof cls, for the error classes of jsonwebtoken:
\* TokenExpiredError and NotBeforeError extend JsonWebTokenError
InstanceOf(error, cls) ==
    \/ error = cls
    \/ error \in {"TokenExpiredError", "NotBeforeError"} /\ cls = "JsonWebTokenError"

\* the catch block of protect: the first matching instanceof answers
protectCatch(error) ==
    IF InstanceOf(error, "JsonWebTokenError")
    THEN Response(401, "fail", "Invalid token. Please log in again!")
    ELSE IF InstanceOf(error, "TokenExpiredError")
    THEN Response(401, "fail", "Your token has expired! Please log in again.")
    ELSE Response(500, "error", "Something went wrong with authentication")

\* the bearer token protect reads from the Authorization header:
\* startsWith('Bearer') and then split(' ')[1]
BearerToken(auth) ==
    IF IsSome(auth) /\ Val(auth).scheme = "Bearer" THEN Val(auth).credential ELSE None

\* prisma.user.findUnique({where: {id}, select: id, name, email, ...}):
\* the row without its password
\* (mutant) the select of protect taking every column of the user row
WholeUser(u) == u

PublicUser(u) == [id |-> u.id, email |-> u.email, name |-> u.name]

FindUserById(tbl, id) ==
    IF \E u \in tbl : u.id = id
    THEN Some(PublicUser(CHOOSE u \in tbl : u.id = id))
    ELSE None

\* protect: either next() with req.user attached, or a response
protect(auth, tbl) ==
    LET token == BearerToken(auth) IN
    IF ~IsSome(token)
    THEN [next |-> FALSE, user |-> None,
          resp |-> Response(401, "fail", "You are not logged in. Please log in to get access.")]
    ELSE LET decoded == jwtVerify(Val(token)) IN
         IF ~decoded.ok
         THEN [next |-> FALSE, user |-> None, resp |-> protectCatch(decoded.error)]
         ELSE LET currentUser == FindUserById(tbl, decoded.id) IN
              IF ~IsSome(currentUser)
              THEN [next |-> FALSE, user |-> None,
                    resp |-> Response(401, "fail", "The user belonging to this token no longer exists.")]
              ELSE [next |-> TRUE, user |-> currentUser, resp |-> Response(0, NoField, NoField)]

-----------------------------------------------------------------------------
(* Requests *)

\* req.body of an expense request; userId is an owner id a client may send
EmptyBody == [amount |-> None, category |-> None, note |-> None, date |-> None,
              userId |-> None]

\* req.query of GET /expenses
EmptyQuery == [category |-> None, startDate |-> None, endDate |-> None,
               page |-> None, limit |-> None]

\* a path below /api/expenses: <<>> is "/", <<seg>> is "/seg"; a segment is
\* the UUID of the n-th row the store inserts, [uuid |-> n], or a literal
IsUUID(seg) == "uuid" \in DOMAIN seg

SummarySeg == [lit |-> "summary"]

-----------------------------------------------------------------------------
(* The expense router: routes in the order they are registered *)

ExpenseRoutes == <<
    [method |-> "POST",   pattern |-> "/",        validations |-> "validateCreateExpense",
     handler |-> "createExpense"],
    [method |-> "GET",    pattern |-> "/",        validations |-> "validateExpenseQuery",
     handler |-> "getExpenses"],
    [method |-> "GET",    pattern |-> "/:id",     validations |-> "validateExpenseId",
     handler |-> "getExpense"],
    [method |-> "GET",    pattern |-> "/summary", validations |-> "validateExpenseQuery",
     handler |-> "getExpenseSummary"],
    [method |-> "PATCH",  pattern |-> "/:id",     validations |-> "validateUpdateExpense",
     handler |-> "updateExpense"],
    [method |-> "DELETE", pattern |-> "/:id",     validations |-> "none",
     handler |-> "deleteExpense"] >>

\* whether a route's path pattern matches a request path
PatternMatches(pattern, path) ==
    CASE pattern = "/" -> path = <<>>
      [] pattern = "/:id" -> Len(path) = 1
      [] pattern = "/summary" -> path = <<SummarySeg>>
      [] OTHER -> FALSE

\* the first registered route that matches, 0 when none does
MatchRoute(routes, method, path) ==
    LET hits == {i \in 1..Len(routes) :
                    routes[i].method = method /\ PatternMatches(routes[i].pattern, path)}
    IN  IF hits = {} THEN 0 ELSE CHOOSE i \in hits : \A j \in hits : i <= j

\* app.ts: the handler after the routers answers what no route matched
notFoundHandler == Response(404, "error", "Not Found")

-----------------------------------------------------------------------------
(* Validation chains (express-validator) *)

\* the text a chain validates: an absent field validates as the empty string
FieldText(o) == IF IsSome(o) THEN Val(o) ELSE <<>>

\* isFloat({gt: 0}) on body.amount
IsPositiveFloat(o) == IsSome(o) /\ Val(o) > 0

\* isISO8601() on a date field: the field carries whether its text is ISO-8601
IsISO8601(o) == IsSome(o) /\ Val(o).iso

\* sanitizer .trim() on a field that is present
TrimField(o) == IF IsSome(o) THEN Some(Trim(Val(o))) ELSE None

Violation(field, message) == <<[field |-> field, message |-> message]>>

validateCreateExpense(body) ==
    (IF IsPositiveFloat(body.amount) THEN <<>>
     ELSE Violation("amount", "Amount must be a positive number"))
    \o (IF Trim(FieldText(body.category)) # <<>> THEN <<>>
        ELSE Violation("category", "Category is required"))
    \o (IF ~IsSome(body.date) \/ IsISO8601(body.date) THEN <<>>
        ELSE Violation("date", "Invalid date format. Use ISO8601 format"))

\* (mutant) validateUpdateExpense without its rule on amount
validateUpdateExpenseNoAmount(body) ==
    (IF ~IsSome(body.category) \/ Trim(FieldText(body.category)) # <<>> THEN <<>>
     ELSE Violation("category", "Category cannot be empty"))
    \o (IF ~IsSome(body.date) \/ IsISO8601(body.date) THEN <<>>
        ELSE Violation("date", "Invalid date format. Use ISO8601 format"))

validateUpdateExpense(body) ==
    (IF ~IsSome(body.amount) \/ IsPositiveFloat(body.amount) THEN <<>>
     ELSE Violation("amount", "Amount must be a positive number"))
    \o (IF ~IsSome(body.category) \/ Trim(FieldText(body.category)) # <<>> THEN <<>>
        ELSE Violation("category", "Category cannot be empty"))
    \o (IF ~IsSome(body.date) \/ IsISO8601(body.date) THEN <<>>
        ELSE Violation("date", "Invalid date format. Use ISO8601 format"))

validateExpenseQuery(query) ==
    (IF ~IsSome(query.startDate) \/ IsISO8601(query.startDate) THEN <<>>
     ELSE Violation("startDate", "Invalid start date format. Use ISO8601 format"))
    \o (IF ~IsSome(query.endDate) \/ IsISO8601(query.endDate) THEN <<>>
        ELSE Violation("endDate", "Invalid end date format. Use ISO8601 format"))

validateExpenseId(path) ==
    IF Len(path) = 1 /\ IsUUID(path[1]) THEN <<>>
    ELSE Violation("id", "Invalid expense ID format")

\* the violations a named list of chains finds in a request
Violations(validations, req) ==
    CASE validations = "validateCreateExpense" -> validateCreateExpense(req.body)
      [] validations = "validateUpdateExpense" -> validateUpdateExpense(req.body)
      [] validations = "validateExpenseQuery" -> validateExpenseQuery(req.query)
      [] validations = "validateExpenseId" -> validateExpenseId(req.path)
      [] OTHER -> <<>>

\* (mutant) the chains without their trim()
SanitizedBodyUntrimmed(validations, body) == body

\* the body as the chains' sanitizers leave it: category and note trimmed
SanitizedBody(validations, body) ==
    IF validations \in {"validateCreateExpense", "validateUpdateExpense"}
    THEN [body EXCEPT !.category = TrimField(body.category), !.note = TrimField(body.note)]
    ELSE body

\* the query as the chains' sanitizers leave it: category trimmed
\* (mutant) the category chain without its trim()
SanitizedQueryUntrimmed(validations, query) == query

SanitizedQuery(validations, query) ==
    IF validations = "validateExpenseQuery"
    THEN [query EXCEPT !.category = TrimField(query.category)]
    ELSE query

\* validate(chains): next() when no chain reports a violation, else
\* next(new AppError('Validation failed', 400)) with the list in error.errors
validate(validations, req) ==
    LET errors == Violations(validations, req) IN
    [next |-> errors = <<>>,
     errors |-> errors,
     body |-> SanitizedBody(validations, req.body),
     query |-> SanitizedQuery(validations, req.query),
     resp |-> errorHandler([AppError("Validation failed", 400) EXCEPT !.errors = errors])]

-----------------------------------------------------------------------------
(* The middleware stack of /api/expenses in front of a controller *)

\* (mutant) the route's validate(...) runs before the gate
PipelineValidateFirst(req, tbl) ==
    LET gate == protect(req.auth, tbl)
        i == MatchRoute(ExpenseRoutes, req.method, req.path)
        route == ExpenseRoutes[i]
        checked == validate(route.validations, req)
        base == [stages |-> <<"validate">>, handler |-> "none", user |-> None,
                 body |-> req.body, query |-> req.query, resp |-> gate.resp]
    IN  IF i = 0 THEN [base EXCEPT !.stages = <<"protect">>,
                                   !.resp = IF gate.next THEN notFoundHandler ELSE gate.resp]
        ELSE IF ~checked.next THEN [base EXCEPT !.resp = checked.resp]
        ELSE IF ~gate.next THEN [base EXCEPT !.stages = <<"validate", "protect">>]
        ELSE [base EXCEPT !.stages = <<"validate", "protect", route.handler>>,
                          !.handler = route.handler, !.user = gate.user,
                          !.body = checked.body, !.query = checked.query]

\* router.use(protect), then the matching route's validate(...), then its
\* controller.  The result says which stages ran, in order, and either the
\* response that ended the request or the controller to run with the
\* request as the middleware left it.
Pipeline(req, tbl) ==
    LET gate == protect(req.auth, tbl)
        i == MatchRoute(ExpenseRoutes, req.method, req.path)
        route == ExpenseRoutes[i]
        checked == validate(route.validations, req)
        base == [stages |-> <<"protect">>, handler |-> "none", user |-> None,
                 body |-> req.body, query |-> req.query, resp |-> gate.resp]
    IN  IF ~gate.next THEN base
        ELSE IF i = 0
        THEN [base EXCEPT !.user = gate.user, !.resp = notFoundHandler]
        ELSE IF route.validations = "none"
        THEN [base EXCEPT !.stages = <<"protect", route.handler>>,
                          !.handler = route.handler, !.user = gate.user]
        ELSE IF ~checked.next
        THEN [base EXCEPT !.stages = <<"protect", "validate">>,
                          !.user = gate.user, !.resp = checked.resp]
        ELSE [base EXCEPT !.stages = <<"protect", "validate", route.handler>>,
                          !.handler = route.handler, !.user = gate.user,
                          !.body = checked.body, !.query = checked.query]

-----------------------------------------------------------------------------
(* The expenses table and the queries the controllers issue *)

\* rows whose id is the one a path segment names (a segment that is no UUID
\* names no row)
RowsWithId(tbl, seg) == {e \in tbl : IsUUID(seg) /\ e.id = seg.uuid}

\* prisma.expense.findFirst({where: {id, userId}})
FindFirstOwned(tbl, seg, userId) == {e \in RowsWithId(tbl, seg) : e.userId = userId}

\* (mutant) the end of the range taken as given, without setUTCHours
EndAsGiven(t) == t

\* start.setUTCHours(0, 0, 0, 0) and end.setUTCHours(23, 59, 59, 999)
StartOfDayUTC(t) == (t \div MsPerDay) * MsPerDay
EndOfDayUTC(t) == (t \div MsPerDay) * MsPerDay + (MsPerDay - 1)

\* the where clause getExpenses builds: the caller's rows, the date bounds
\* when startDate / endDate are given, the category when it is a non-empty
\* string
ListWhere(userId, query) ==
    [userId |-> userId,
     gte |-> IF IsSome(query.startDate) THEN Some(StartOfDayUTC(Val(query.startDate).t)) ELSE None,
     lte |-> IF IsSome(query.endDate) THEN Some(EndOfDayUTC(Val(query.endDate).t)) ELSE None,
     category |-> IF IsSome(query.category) /\ Val(query.category) # <<>>
                  THEN query.category ELSE None]

RowMatches(e, where) ==
    /\ e.userId = where.userId
    /\ IsSome(where.gte) => e.date >= Val(where.gte)
    /\ IsSome(where.lte) => e.date <= Val(where.lte)
    /\ IsSome(where.category) => e.category = Val(where.category)

FindMany(tbl, where) == {e \in tbl : RowMatches(e, where)}

\* orderBy: {date: 'desc'}; rows of equal date come in insertion order (the
\* store's sort is stable over its scan of the table)
RECURSIVE OrderByDateDesc(_)
OrderByDateDesc(rows) ==
    IF rows = {} THEN <<>>
    ELSE LET first == CHOOSE e \in rows :
                          \A f \in rows : e.date > f.date \/ (e.date = f.date /\ e.id <= f.id)
         IN  <<first>> \o OrderByDateDesc(rows \ {first})

\* skip / take on an ordered result
\* (a negative take counts from the end of the ordering)
SkipTake(ordered, skip, take) ==
    IF take >= 0
    THEN SubSeq(ordered, skip + 1, Min(Len(ordered), skip + take))
    ELSE SubSeq(ordered, Max(1, Len(ordered) - skip + take + 1), Len(ordered) - skip)

\* parseInt(param) || fallback: a missing or non-numeric parameter parses to
\* NaN, and NaN and 0 are both falsy
ParseIntOr(param, fallback) ==
    IF IsSome(param) /\ Val(param).num /\ Val(param).n # 0 THEN Val(param).n ELSE fallback

\* (mutant) Math.floor(a / b)
FloorDiv(a, b) == a \div b

\* Math.ceil(a / b) for b # 0
CeilDiv(a, b) == 0 - ((0 - a) \div b)

-----------------------------------------------------------------------------
(* The expense controllers.  Each gives the response it sends, or, when it
   throws out of its async function, the error thrown: the controllers are
   registered as they are, so nothing awaits the rejected promise and no
   response is sent (answered = FALSE). *)

Answer(resp) == [answered |-> TRUE, resp |-> resp, thrown |-> None]
Throw(err) == [answered |-> FALSE, resp |-> Response(0, NoField, NoField), thrown |-> Some(err)]

\* the data-access layer takes a DateTime given as a string only when the
\* string is a full ISO-8601 date-time; createExpense and updateExpense hand
\* it body.date as it came
StoreAcceptsDate(o) == ~IsSome(o) \/ Val(o).full

\* (mutant) the insert takes the owner from the body when the client sends one
NewExpenseTrustingBody(id, userId, body, now) ==
    [id |-> id, userId |-> IF IsSome(body.userId) THEN Val(body.userId) ELSE userId,
     amount |-> Val(body.amount), category |-> Val(body.category), note |-> body.note,
     date |-> IF IsSome(body.date) THEN Val(body.date).t ELSE now, createdAt |-> now]

\* the row createExpense inserts: the owner is req.user.id
NewExpense(id, userId, body, now) ==
    [id |-> id, userId |-> userId, amount |-> Val(body.amount),
     category |-> Val(body.category), note |-> body.note,
     date |-> IF IsSome(body.date) THEN Val(body.date).t ELSE now, createdAt |-> now]

createExpenseResponse(row) ==
    Answer([Response(201, "success", NoField) EXCEPT !.rows = <<row>>])

\* createExpense: the insert and the 201, or, when the insert is refused, the
\* AppError 500 its catch block throws
createExpense(id, userId, body, now) ==
    LET row == NewExpense(id, userId, body, now) IN
    IF StoreAcceptsDate(body.date)
    THEN [inserted |-> {row}, created |-> Some(row), result |-> createExpenseResponse(row)]
    ELSE [inserted |-> {}, created |-> None,
          result |-> Throw(AppError("Error creating expense", 500))]

\* getExpenses on one state of the table (findMany and count are issued
\* together); a negative skip is refused by the data-access layer and the
\* error goes to next(error)
getExpenses(tbl, userId, query) ==
    LET page == ParseIntOr(query.page, 1)
        limit == ParseIntOr(query.limit, 10)
        offset == (page - 1) * limit
        where == ListWhere(userId, query)
        found == OrderByDateDesc(FindMany(tbl, where))
        total == Cardinality(FindMany(tbl, where))
        totalPages == CeilDiv(total, limit)
    IN  IF offset < 0
        THEN Answer(errorHandler(StoreError("Invalid value for skip argument")))
        ELSE Answer([Response(200, "success", NoField) EXCEPT
                 !.rows = SkipTake(found, offset, limit),
                 !.pagination = Some([page |-> page, limit |-> limit, total |-> total,
                                      totalPages |-> totalPages,
                                      hasNextPage |-> page < totalPages,
                                      hasPrevPage |-> page > 1])])

\* (mutant) getExpense looks the row up by id alone and then checks its
\* owner, as update and delete do
getExpenseLikeUpdate(tbl, userId, seg) ==
    LET found == RowsWithId(tbl, seg) IN
    IF found = {}
    THEN Answer(errorHandler(AppError("Expense not found", 404)))
    ELSE IF (CHOOSE e \in found : TRUE).userId # userId
    THEN Answer(errorHandler(AppError("Not authorized to view this expense", 403)))
    ELSE Answer([Response(200, "success", NoField) EXCEPT !.rows = <<CHOOSE e \in found : TRUE>>])

\* getExpense: findFirst by id and owner; no row is next(AppError 404)
getExpense(tbl, userId, seg) ==
    LET found == FindFirstOwned(tbl, seg, userId) IN
    IF found = {}
    THEN Answer(errorHandler(AppError("Expense not found", 404)))
    ELSE Answer([Response(200, "success", NoField) EXCEPT !.rows = <<CHOOSE e \in found : TRUE>>])

\* (mutant) updateExpense checks that the row exists and not whose it is
updateExpenseCheckNoOwner(tbl, userId, seg) ==
    IF RowsWithId(tbl, seg) = {} THEN Throw(AppError("Expense not found", 404))
    ELSE Answer(Response(0, NoField, NoField))

\* the check updateExpense makes on the row findUnique({where: {id}}) gave
updateExpenseCheck(tbl, userId, seg) ==
    LET found == RowsWithId(tbl, seg) IN
    IF found = {} THEN Throw(AppError("Expense not found", 404))
    ELSE IF (CHOOSE e \in found : TRUE).userId # userId
    THEN Throw(AppError("Not authorized to update this expense", 403))
    ELSE Answer(Response(0, NoField, NoField))

\* the check deleteExpense makes on the row findUnique({where: {id}}) gave
deleteExpenseCheck(tbl, userId, seg) ==
    LET found == RowsWithId(tbl, seg) IN
    IF found = {} THEN Throw(AppError("Expense not found", 404))
    ELSE IF (CHOOSE e \in found : TRUE).userId # userId
    THEN Throw(AppError("Not authorized to delete this expense", 403))
    ELSE Answer(Response(0, NoField, NoField))

\* (mutant) the update writes every field of data, absent ones as null
UpdatedRowOverwriting(e, data) ==
    [e EXCEPT !.amount = IF IsSome(data.amount) THEN Val(data.amount) ELSE @,
              !.category = IF IsSome(data.category) THEN Val(data.category) ELSE @,
              !.note = data.note,
              !.date = IF IsSome(data.date) THEN Val(data.date).t ELSE @]

\* prisma.expense.update({where: {id}, data}): a field that is undefined in
\* data is left as it is
UpdatedRow(e, data) ==
    [e EXCEPT !.amount = IF IsSome(data.amount) THEN Val(data.amount) ELSE @,
              !.category = IF IsSome(data.category) THEN Val(data.category) ELSE @,
              !.note = IF IsSome(data.note) THEN data.note ELSE @,
              !.date = IF IsSome(data.date) THEN Val(data.date).t ELSE @]

\* the table after update({where: {id}, data}) (unchanged when no row has the
\* id or the statement is refused)
TableAfterUpdate(tbl, seg, data) ==
    IF ~StoreAcceptsDate(data.date) THEN tbl
    ELSE {IF e \in RowsWithId(tbl, seg) THEN UpdatedRow(e, data) ELSE e : e \in tbl}

\* the table after delete({where: {id}})
TableAfterDelete(tbl, seg) == tbl \ RowsWithId(tbl, seg)

\* what updateExpense does after its update statement: the statement fails
\* when the row is gone or a value is refused, and the catch block rethrows
\* as AppError 500
updateExpenseResult(tbl, seg, data) ==
    IF RowsWithId(tbl, seg) = {} \/ ~StoreAcceptsDate(data.date)
    THEN Throw(AppError("Error updating expense", 500))
    ELSE Answer([Response(200, "success", NoField) EXCEPT
                    !.rows = <<UpdatedRow(CHOOSE e \in RowsWithId(tbl, seg) : TRUE, data)>>])

\* (mutant) deleteExpense looks the row up after its delete statement
deleteExpenseResultLateCheck(tbl, seg) ==
    IF RowsWithId(TableAfterDelete(tbl, seg), seg) = {}
    THEN Throw(AppError("Expense not found", 404))
    ELSE Answer(Response(204, NoField, NoField))

\* what deleteExpense does after its delete statement; a 204 goes out
\* without the body given to res.json
deleteExpenseResult(tbl, seg) ==
    IF RowsWithId(tbl, seg) = {}
    THEN Throw(AppError("Error deleting expense", 500))
    ELSE Answer(Response(204, NoField, NoField))

-----------------------------------------------------------------------------
(* The requests the model sends to /api/expenses *)

OkToken(userId) == [kind |-> "ok", id |-> userId]
BearerAuth(token) == Some([scheme |-> "Bearer", credential |-> Some(token)])

\* Authorization headers: none, another scheme, and a Bearer header with a
\* valid token of each user id, an expired one, one with a bad signature and
\* one that is no JWT
AuthHeaders ==
    {None, Some([scheme |-> "Basic", credential |-> Some(OkToken("u1"))])}
        \cup {BearerAuth(OkToken(u)) : u \in UserIds}
        \cup {BearerAuth([kind |-> k, id |-> "u1"]) : k \in TokenKinds \ {"ok"}}

\* the instants the clock shows while Spec runs
Clock == {0}

\* a date field: whether its text is ISO-8601, whether it is a full date-time
\* (2024-01-02T00:00:00.000Z) rather than a date alone (2024-01-01), and the
\* instant new Date(text) gives
IsoDate(t) == Some([iso |-> TRUE, full |-> TRUE, t |-> t])
DateOnly(t) == Some([iso |-> TRUE, full |-> FALSE, t |-> t])
NotADate == Some([iso |-> FALSE, full |-> FALSE, t |-> 0])
Number(n) == Some([num |-> TRUE, n |-> n])
NotANumber == Some([num |-> FALSE, n |-> 0])

\* path segments: the UUID of every row the store may insert, one more UUID
\* that names no row, and the literal "summary"
Segments == {[uuid |-> n] : n \in 1..(MaxExpenses + 1)} \cup {SummarySeg}

CreateBodies ==
    {[EmptyBody EXCEPT !.amount = a, !.category = c, !.userId = u] :
        a \in {Some(0), Some(1)},
        c \in {Some(<<" ">>), Some(<<" ", "a">>)},
        u \in {None, Some("u1")}}

UpdateBodies ==
    {[EmptyBody EXCEPT !.amount = a] : a \in {None, Some(0), Some(2)}}

ListQueries ==
    {[EmptyQuery EXCEPT !.limit = l, !.startDate = d] :
        l \in {None, Number(1)}, d \in {None, NotADate}}

Request(method, path, auth, body, query) ==
    [method |-> method, path |-> path, auth |-> auth, body |-> body, query |-> query]

CreateRequests ==
    {Request("POST", <<>>, a, b, EmptyQuery) : a \in AuthHeaders, b \in CreateBodies}
ListRequests ==
    {Request("GET", <<>>, a, EmptyBody, q) : a \in AuthHeaders, q \in ListQueries}
GetRequests ==
    {Request("GET", <<seg>>, a, EmptyBody, EmptyQuery) : a \in AuthHeaders, seg \in Segments}
UpdateRequests ==
    {Request("PATCH", <<seg>>, a, b, EmptyQuery) :
        a \in AuthHeaders, seg \in Segments, b \in UpdateBodies}
DeleteRequests ==
    {Request("DELETE", <<seg>>, a, EmptyBody, EmptyQuery) : a \in AuthHeaders, seg \in Segments}
\* requests no route of the router matches
OtherRequests ==
    {Request("POST", <<SummarySeg>>, a, EmptyBody, EmptyQuery) : a \in AuthHeaders}

ExpenseRequests ==
    CreateRequests \cup ListRequests \cup GetRequests \cup UpdateRequests
        \cup DeleteRequests \cup OtherRequests

-----------------------------------------------------------------------------
(* State *)

\* what outcome records of a request as it settles: the request's method,
\* path, Authorization header and client-sent owner id; the stages that ran
\* and the user the gate resolved; whether a response was sent, the response,
\* the error thrown out of the controller; for update and delete what
\* findUnique gave ("own", "foreign", "missing"); the row an insert created;
\* and the number of statements the request issued on the expenses table
Settled(req, pl, result, target, created, statements) ==
    [method |-> req.method, path |-> req.path, auth |-> req.auth,
     bodyUserId |-> req.body.userId, body |-> req.body, query |-> req.query,
     handler |-> pl.handler, stages |-> pl.stages,
     user |-> IF IsSome(pl.user) THEN Some(Val(pl.user).id) ELSE None,
     answered |-> result.answered, resp |-> result.resp, thrown |-> result.thrown,
     target |-> target, created |-> created, statements |-> statements]

NoOutcome ==
    [method |-> "none", path |-> <<>>, auth |-> None, bodyUserId |-> None,
     body |-> EmptyBody, query |-> EmptyQuery,
     handler |-> "none", stages |-> <<>>, user |-> None,
     answered |-> FALSE, resp |-> Response(0, NoField, NoField), thrown |-> None,
     target |-> "n/a", created |-> None, statements |-> 0]

\* an update or delete suspended between its findUnique and its statement
Suspended(op, userId, seg, data, body) ==
    [op |-> op, user |-> userId, seg |-> seg, data |-> data, body |-> body]

\* the request a suspended update or delete came from
RequestOf(p) ==
    Request(IF p.op = "updateExpense" THEN "PATCH" ELSE "DELETE", <<p.seg>>,
            BearerAuth(OkToken(p.user)), p.body, EmptyQuery)

\* what the middleware stack gave a suspended update or delete
PipelineOf(p) ==
    [handler |-> p.op, user |-> Some([id |-> p.user]),
     stages |-> IF p.op = "updateExpense"
                THEN <<"protect", "validate", "updateExpense">>
                ELSE <<"protect", "deleteExpense">>]

\* bcrypt.hash(password, salt): a value only that password compares true with
Hash(password) == <<"bcrypt", password>>

UserRow(id, email) ==
    [id |-> id, email |-> email, name |-> <<"n">>,
     password |-> Hash(<<"s", "e", "c", "r", "e", "t">>)]

\* the state of the mobile client
clientVars == <<secureStore, session, provider>>

\* no client app is running: nothing is stored on the device
ClientOff ==
    /\ secureStore = [userToken |-> None, userInfo |-> None]
    /\ session = [userToken |-> None]
    /\ provider = [expenses |-> <<>>]

Init ==
    /\ users = {UserRow("u1", "a@x.io"), UserRow("u2", "b@x.io")}
    /\ expenses = {}
    /\ nextId = 1
    /\ inflight = EmptyBag
    /\ outcome = NoOutcome
    /\ ClientOff

-----------------------------------------------------------------------------
(* Actions: one per way a request to /api/expenses runs.  A request settles
   in one step with its outcome on record; the next step takes the record
   off (the response has left), so every outcome is seen in the state the
   request left behind. *)

Idle == outcome = NoOutcome

\* a request ended by the gate, by the 404 handler or by validate
Rejected ==
    /\ Idle
    /\ \E req \in ExpenseRequests :
        LET pl == Pipeline(req, users) IN
        /\ pl.handler = "none"
        /\ outcome' = Settled(req, pl, Answer(pl.resp), "n/a", None, 0)
        /\ UNCHANGED <<users, expenses, nextId, inflight>>
    /\ UNCHANGED clientVars

\* POST / reaching createExpense: one insert, then 201
CreateExpense ==
    /\ Idle
    /\ nextId <= MaxExpenses
    /\ \E req \in CreateRequests, now \in Clock :
        LET pl == Pipeline(req, users)
            done == createExpense(nextId, Val(pl.user).id, pl.body, now)
        IN  /\ pl.handler = "createExpense"
            /\ expenses' = expenses \cup done.inserted
            /\ nextId' = nextId + Cardinality(done.inserted)
            /\ outcome' = Settled(req, pl, done.result, "n/a", done.created, 1)
            /\ UNCHANGED <<users, inflight>>
    /\ UNCHANGED clientVars

\* GET / reaching getExpenses
GetExpenses ==
    /\ Idle
    /\ \E req \in ListRequests :
        LET pl == Pipeline(req, users) IN
        /\ pl.handler = "getExpenses"
        /\ outcome' = Settled(req, pl, getExpenses(expenses, Val(pl.user).id, pl.query),
                              "n/a", None, 2)
        /\ UNCHANGED <<users, expenses, nextId, inflight>>
    /\ UNCHANGED clientVars

\* GET /:id reaching getExpense
GetExpense ==
    /\ Idle
    /\ \E req \in GetRequests :
        LET pl == Pipeline(req, users) IN
        /\ pl.handler = "getExpense"
        /\ outcome' = Settled(req, pl, getExpense(expenses, Val(pl.user).id, req.path[1]),
                              "n/a", None, 1)
        /\ UNCHANGED <<users, expenses, nextId, inflight>>
    /\ UNCHANGED clientVars

\* what findUnique({where: {id}}) gave an update or delete
Target(tbl, userId, seg) ==
    IF RowsWithId(tbl, seg) = {} THEN "missing"
    ELSE IF (CHOOSE e \in RowsWithId(tbl, seg) : TRUE).userId = userId THEN "own"
    ELSE "foreign"

\* PATCH /:id reaching updateExpense: findUnique and the ownership check;
\* the request throws, or is suspended before its update statement
UpdateExpenseFind ==
    /\ Idle
    /\ \E req \in UpdateRequests :
        LET pl == Pipeline(req, users)
            userId == Val(pl.user).id
            seg == req.path[1]
            check == updateExpenseCheck(expenses, userId, seg)
        IN  /\ pl.handler = "updateExpense"
            /\ IF check.answered
               THEN /\ BagCardinality(inflight) < MaxInFlight
                    /\ inflight' = inflight (+) SetToBag({Suspended("updateExpense", userId, seg, pl.body, req.body)})
                    /\ UNCHANGED outcome
               ELSE /\ outcome' = Settled(req, pl, check, Target(expenses, userId, seg), None, 1)
                    /\ UNCHANGED inflight
            /\ UNCHANGED <<users, expenses, nextId>>
    /\ UNCHANGED clientVars

\* the update statement of a suspended updateExpense, then 200 or the throw
UpdateExpenseWrite ==
    /\ Idle
    /\ \E p \in BagToSet(inflight) :
        /\ p.op = "updateExpense"
        /\ expenses' = TableAfterUpdate(expenses, p.seg, p.data)
        /\ inflight' = inflight (-) SetToBag({p})
        /\ outcome' = Settled(RequestOf(p), PipelineOf(p),
                              updateExpenseResult(expenses, p.seg, p.data), "own", None, 2)
        /\ UNCHANGED <<users, nextId>>
    /\ UNCHANGED clientVars

\* DELETE /:id reaching deleteExpense: findUnique and the ownership check
DeleteExpenseFind ==
    /\ Idle
    /\ \E req \in DeleteRequests :
        LET pl == Pipeline(req, users)
            userId == Val(pl.user).id
            seg == req.path[1]
            check == deleteExpenseCheck(expenses, userId, seg)
        IN  /\ pl.handler = "deleteExpense"
            /\ IF check.answered
               THEN /\ BagCardinality(inflight) < MaxInFlight
                    /\ inflight' = inflight (+) SetToBag({Suspended("deleteExpense", userId, seg, EmptyBody, req.body)})
                    /\ UNCHANGED outcome
               ELSE /\ outcome' = Settled(req, pl, check, Target(expenses, userId, seg), None, 1)
                    /\ UNCHANGED inflight
            /\ UNCHANGED <<users, expenses, nextId>>
    /\ UNCHANGED clientVars

\* the delete statement of a suspended deleteExpense, then 204 or the throw
DeleteExpenseWrite ==
    /\ Idle
    /\ \E p \in BagToSet(inflight) :
        /\ p.op = "deleteExpense"
        /\ expenses' = TableAfterDelete(expenses, p.seg)
        /\ inflight' = inflight (-) SetToBag({p})
        /\ outcome' = Settled(RequestOf(p), PipelineOf(p),
                              deleteExpenseResult(expenses, p.seg), "own", None, 2)
        /\ UNCHANGED <<users, nextId>>
    /\ UNCHANGED clientVars

\* the outcome on record is taken off before the next request step
Settle ==
    /\ ~Idle
    /\ outcome' = NoOutcome
    /\ UNCHANGED <<users, expenses, nextId, inflight>>
    /\ UNCHANGED clientVars

Next ==
    \/ Rejected
    \/ CreateExpense
    \/ GetExpenses
    \/ GetExpense
    \/ UpdateExpenseFind
    \/ UpdateExpenseWrite
    \/ DeleteExpenseFind
    \/ DeleteExpenseWrite
    \/ Settle

Spec == Init /\ [][Next]_vars

-----------------------------------------------------------------------------
(* Properties of the expense endpoints (checked under Spec) *)

\* the bearer token of the settled request, when its header carries one
OutcomeToken == BearerToken(outcome.auth)

\* the settled request carried a valid token of a user that has a row
Authenticated ==
    /\ IsSome(OutcomeToken)
    /\ Val(OutcomeToken).kind = "ok"
    /\ \E u \in users : u.id = Val(OutcomeToken).id

\* C1: the row a create request stores is owned by the user the gate
\* resolved from the bearer token, whatever owner id the body carries.
C1_OwnerIsCaller ==
    IsSome(outcome.created) =>
        /\ Authenticated
        /\ Val(outcome.created).userId = Val(OutcomeToken).id
        /\ outcome.user = Some(Val(OutcomeToken).id)
        /\ Val(outcome.created) \in expenses
        /\ \A e \in expenses : e.id = Val(outcome.created).id => e = Val(outcome.created)

\* a create by one user whose body names another user as owner
C1_Witness ==
    /\ IsSome(outcome.created)
    /\ IsSome(outcome.bodyUserId)
    /\ Val(outcome.bodyUserId) # Val(outcome.user)
    /\ outcome.resp.code = 201

\* every expense a response carries is owned by the request's user
ReadIsolation ==
    \A i \in 1..Len(outcome.resp.rows) :
        IsSome(outcome.user) /\ outcome.resp.rows[i].userId = Val(outcome.user)

\* a step removes, changes or adds only rows owned by the user whose request
\* took the step
WriteIsolation ==
    /\ \A e \in expenses \ expenses' :
        IsSome(outcome'.user) /\ e.userId = Val(outcome'.user)
    /\ \A e \in expenses' \ expenses :
        IsSome(outcome'.user) /\ e.userId = Val(outcome'.user)

\* C2: no request of a user returns a field of another user's expense, and
\* every expense row of another user is the same after each of its steps.
C2_Isolation == [](ReadIsolation) /\ [][WriteIsolation]_vars

\* an update or delete of one user against a row of another has settled and
\* the row is still in the table
C2_Witness ==
    /\ outcome.handler \in {"updateExpense", "deleteExpense"}
    /\ outcome.target = "foreign"
    /\ \E e \in RowsWithId(expenses, outcome.path[1]) : e.userId # Val(outcome.user)

\* C3: for every caller and well-formed id, GET /expenses/:id answers the
\* same (404) whether or not another user's expense with that id exists.
C3_GetHidesForeignRows ==
    \A seg \in Segments, caller \in {u.id : u \in users} :
        LET foreign == {e \in RowsWithId(expenses, seg) : e.userId # caller} IN
        (IsUUID(seg) /\ foreign # {}) =>
            /\ getExpense(expenses, caller, seg) = getExpense(expenses \ foreign, caller, seg)
            /\ getExpense(expenses, caller, seg).resp.code = 404

\* GET /:id by a user for an id that is another user's row was answered
C3_Witness ==
    /\ outcome.handler = "getExpense"
    /\ outcome.answered
    /\ \E e \in RowsWithId(expenses, outcome.path[1]) : e.userId # Val(outcome.user)

\* C4 (as claimed): an update or delete of an id with no row is answered 404,
\* one of another user's row is answered 403, and the ownership check
\* precedes the statement.
C4_AsClaimed ==
    outcome.handler \in {"updateExpense", "deleteExpense"} =>
        /\ outcome.target = "missing" => outcome.answered /\ outcome.resp.code = 404
        /\ outcome.target = "foreign" => outcome.answered /\ outcome.resp.code = 403
        /\ outcome.statements = 2 => outcome.target = "own"

\* the settled request is one of the three kinds the gate turns away: no
\* bearer token, a token that fails verification, a token of no user row
TurnedAway(o) ==
    \/ ~IsSome(BearerToken(o.auth))
    \/ Val(BearerToken(o.auth)).kind # "ok"
    \/ ~\E u \in users : u.id = Val(BearerToken(o.auth)).id

GateFirst ==
    outcome.method # "none" =>
        /\ TurnedAway(outcome) =>
            /\ outcome.answered /\ outcome.resp.code = 401
            /\ outcome.stages = <<"protect">>
            /\ outcome.statements = 0
            /\ outcome.resp.rows = <<>>
        /\ (\E i \in 1..Len(outcome.stages) : outcome.stages[i] # "protect") =>
            /\ outcome.stages[1] = "protect"
            /\ Authenticated
            /\ outcome.user = Some(Val(OutcomeToken).id)

\* C5: validation and controller run only after the gate resolved the token
\* to an existing user; a request the gate turns away is answered 401 and
\* reads and writes no expense row.
C5_GateFirst ==
    [](GateFirst) /\ [][TurnedAway(outcome') /\ outcome'.method # "none" => expenses' = expenses]_vars

\* a request with a valid token of a user that has no row was answered 401
C5_Witness ==
    /\ outcome.method = "POST"
    /\ IsSome(OutcomeToken)
    /\ Val(OutcomeToken) = OkToken("u3")
    /\ outcome.resp.code = 401

\* C6 (as claimed): an expired token gets the expired-token reason, a
\* malformed or bad-signature token the invalid-token reason.
C6_AsClaimed ==
    (outcome.method # "none" /\ IsSome(OutcomeToken)) =>
        /\ Val(OutcomeToken).kind = "expired" =>
            outcome.resp.message = "Your token has expired! Please log in again."
        /\ Val(OutcomeToken).kind \in {"badsig", "malformed"} =>
            outcome.resp.message = "Invalid token. Please log in again!"

\* C8 (as claimed): an authenticated GET /summary reaches the summary
\* handler and is answered 200.
C8_AsClaimed ==
    (outcome.method = "GET" /\ outcome.path = <<SummarySeg>> /\ Authenticated) =>
        /\ outcome.handler = "getExpenseSummary"
        /\ outcome.answered
        /\ outcome.resp.code = 200

-----------------------------------------------------------------------------
(* POST /api/auth/register *)

\* res.status(code).json(...) of the auth controllers: the user (without its
\* password) and the token of a 201
AuthResponse(code, status, message, user, token) ==
    [Response(code, status, message) EXCEPT !.user = user, !.token = token]

\* const {password: _, ...userWithoutPassword} = user
WithoutPassword(user) == [f \in DOMAIN user \ {"password"} |-> user[f]]

\* jwt.sign({id, email}, secret, {expiresIn: '7d'})
SignToken(user) == [kind |-> "ok", id |-> user.id, email |-> user.email]

\* the chains of the register route: name notEmpty, email isEmail, password
\* isLength({min: 6}); an email carries whether its text is well formed
validateRegister(body) ==
    (IF body.name # <<>> THEN <<>> ELSE Violation("name", "Name is required"))
    \o (IF body.email.wellFormed THEN <<>>
        ELSE Violation("email", "Please provide a valid email"))
    \o (IF Len(body.password) >= 6 THEN <<>>
        ELSE Violation("password", "Password must be at least 6 characters long"))

\* prisma.user.findUnique({where: {email}})
FindUserByEmail(tbl, email) == {u \in tbl : u.email = email}

\* the ids the store gives the users it inserts, in order
UserIdSeq == <<"u1", "u2", "u3">>

\* register up to its insert: the 400 of an email already in use, or the
\* row to insert
registerLookup(tbl, body) ==
    IF FindUserByEmail(tbl, body.email.text) # {}
    THEN Answer(AuthResponse(400, NoField, "User already exists", None, None))
    ELSE [answered |-> FALSE, resp |-> Response(0, NoField, NoField), thrown |-> None]

\* prisma.user.create: the unique index users_email_key refuses a second
\* row with the same email, and register's catch block answers 500
registerInsert(tbl, row) ==
    IF FindUserByEmail(tbl, row.email) # {}
    THEN Answer(AuthResponse(500, "error", "Something went wrong during registration",
                             None, None))
    ELSE Answer(AuthResponse(201, "success", NoField, Some(WithoutPassword(row)),
                             Some(SignToken(row))))

\* the chains of the login route: email isEmail, password notEmpty
validateLogin(body) ==
    (IF body.email.wellFormed THEN <<>>
     ELSE Violation("email", "Please provide a valid email"))
    \o (IF body.password # <<>> THEN <<>> ELSE Violation("password", "Password is required"))

\* (mutant) login answers with a token for any known email
loginByEmailOnly(tbl, body) ==
    LET found == FindUserByEmail(tbl, body.email.text) IN
    IF found = {}
    THEN Answer(AuthResponse(401, "error", "Invalid credentials", None, None))
    ELSE Answer(AuthResponse(200, "success", NoField, None,
                             Some(SignToken(CHOOSE u \in found : TRUE))))

\* login: findUnique by email with the password selected, bcrypt.compare,
\* then the token alone
login(tbl, body) ==
    LET found == FindUserByEmail(tbl, body.email.text) IN
    IF found = {}
    THEN Answer(AuthResponse(401, "error", "Invalid credentials", None, None))
    ELSE LET user == CHOOSE u \in found : TRUE IN
         IF Hash(body.password) # user.password
         THEN Answer(AuthResponse(401, "error", "Invalid credentials", None, None))
         ELSE Answer(AuthResponse(200, "success", NoField, None, Some(SignToken(user))))

LoginBodies ==
    {[email |-> e, password |-> p] :
        e \in {[text |-> "a@x.io", wellFormed |-> TRUE],
               [text |-> "b@x.io", wellFormed |-> TRUE],
               [text |-> "a.x.io", wellFormed |-> FALSE]},
        p \in {<<"s", "e", "c", "r", "e", "t">>, <<"p", "w">>, <<>>}}

RegisterBodies ==
    {[name |-> n, email |-> e, password |-> p] :
        n \in {<<>>, <<"n">>},
        e \in {[text |-> "a@x.io", wellFormed |-> TRUE],
               [text |-> "b@x.io", wellFormed |-> TRUE],
               [text |-> "a.x.io", wellFormed |-> FALSE]},
        p \in {<<"s", "e", "c", "r", "e", "t">>, <<"p", "w">>}}

\* what outcome records of a settled register request; held says whether
\* a row with the email was in the table when the insert was attempted
SettledAuth(handler, body, result, held) ==
    [method |-> "POST", handler |-> handler, email |-> body.email.text,
     route |-> IF "name" \in DOMAIN body THEN "/register" ELSE "/login",
     password |-> body.password,
     answered |-> result.answered, resp |-> result.resp, held |-> held]

InitAuth ==
    /\ users = {}
    /\ expenses = {}
    /\ nextId = 1
    /\ inflight = EmptyBag
    /\ outcome = NoOutcome
    /\ ClientOff

\* a register request validate turns down
RegisterInvalid ==
    /\ Idle
    /\ \E body \in RegisterBodies :
        /\ validateRegister(body) # <<>>
        /\ outcome' = SettledAuth("validate", body,
                                  Answer(errorHandler([AppError("Validation failed", 400)
                                           EXCEPT !.errors = validateRegister(body)])), "n/a")
        /\ UNCHANGED <<users, expenses, nextId, inflight>>
    /\ UNCHANGED clientVars

\* register: findUnique by email; 400 when a row has it, else the request
\* goes on to hash the password and is suspended before its insert
RegisterFind ==
    /\ Idle
    /\ \E body \in RegisterBodies :
        LET found == registerLookup(users, body) IN
        /\ validateRegister(body) = <<>>
        /\ IF found.answered
           THEN /\ outcome' = SettledAuth("register", body, found, "n/a")
                /\ UNCHANGED inflight
           ELSE /\ BagCardinality(inflight) < MaxInFlight
                /\ inflight' = inflight (+) SetToBag({[op |-> "register", body |-> body]})
                /\ UNCHANGED outcome
        /\ UNCHANGED <<users, expenses, nextId>>
    /\ UNCHANGED clientVars

\* register's insert and the response after it
RegisterInsert ==
    /\ Idle
    /\ Cardinality(users) < Len(UserIdSeq)
    /\ \E p \in BagToSet(inflight) :
        LET row == [id |-> UserIdSeq[Cardinality(users) + 1], email |-> p.body.email.text,
                    name |-> p.body.name, password |-> Hash(p.body.password)]
            result == registerInsert(users, row)
        IN  /\ p.op = "register"
            /\ users' = IF result.resp.code = 201 THEN users \cup {row} ELSE users
            /\ inflight' = inflight (-) SetToBag({p})
            /\ outcome' = SettledAuth("register", p.body, result,
                                      IF \E u \in users : u.email = p.body.email.text
                                      THEN "held" ELSE "free")
            /\ UNCHANGED <<expenses, nextId>>
    /\ UNCHANGED clientVars

\* POST /login: validate, then login
Login ==
    /\ Idle
    /\ \E body \in LoginBodies :
        /\ outcome' = IF validateLogin(body) # <<>>
                      THEN SettledAuth("validate", body,
                               Answer(errorHandler([AppError("Validation failed", 400)
                                                      EXCEPT !.errors = validateLogin(body)])),
                               "n/a")
                      ELSE SettledAuth("login", body, login(users, body), "n/a")
        /\ UNCHANGED <<users, expenses, nextId, inflight>>
    /\ UNCHANGED clientVars

NextAuth ==
    \/ RegisterInvalid
    \/ RegisterFind
    \/ RegisterInsert
    \/ Login
    \/ Settle

SpecAuth == InitAuth /\ [][NextAuth]_vars

\* C7 (as claimed): a register request whose email is held by a row when its
\* insert is attempted ends with a 4xx, and no email is held by two rows.
C7_AsClaimed ==
    /\ \A u, v \in users : u.email = v.email => u = v
    /\ (outcome.handler = "register" /\ outcome.held = "held") =>
        /\ outcome.resp.code \in 400..499
        /\ Cardinality(FindUserByEmail(users, outcome.email)) = 1

-----------------------------------------------------------------------------
(* GET /api/expenses over tables of up to MaxListRows rows *)

\* the instants of the rows: several in one UTC day, the last and the first
\* millisecond of a day, and equal instants
ListDates ==
    <<MsPerDay, 82800000, 86399999, MsPerDay, 86401000, 2 * MsPerDay, MsPerDay,
      3 * MsPerDay + 5>>

ListCategories == <<<<"a">>, <<"a">>, <<"A">>, <<"a">>, <<"a", "b">>>>

\* the i-th row of a table: every row the caller's ("own"), or every fourth
\* row another user's and the categories varying ("mixed")
ListRow(pattern, i) ==
    [id |-> i,
     userId |-> IF pattern = "mixed" /\ i % 4 = 0 THEN "u2" ELSE "u1",
     amount |-> i,
     category |-> IF pattern = "mixed" THEN ListCategories[(i % Len(ListCategories)) + 1]
                  ELSE <<"a">>,
     note |-> None,
     date |-> ListDates[(i % Len(ListDates)) + 1], createdAt |-> 0]

ListTables == {{ListRow(pattern, i) : i \in 1..n} : pattern \in {"own", "mixed"}, n \in 0..MaxListRows}

PageQueries ==
    {[category |-> c, startDate |-> s, endDate |-> e, page |-> p, limit |-> l] :
        c \in {None, Some(<<>>), Some(<<"a">>), Some(<<" ", "a">>), Some(<<"A">>)},
        s \in {None, IsoDate(86401000)},
        e \in {None, IsoDate(MsPerDay)},
        p \in {None, Number(1), Number(2), Number(3)},
        l \in {None, Number(4), Number(10)}}

PageRequests ==
    {Request("GET", <<>>, BearerAuth(OkToken(u)), EmptyBody, q) :
        u \in {"u1", "u2"}, q \in PageQueries}

InitList ==
    /\ users = {UserRow("u1", "a@x.io"), UserRow("u2", "b@x.io")}
    /\ expenses \in ListTables
    /\ nextId = Cardinality(expenses) + 1
    /\ inflight = EmptyBag
    /\ outcome = NoOutcome
    /\ ClientOff

\* GET / reaching getExpenses with page, limit and filters
ListPage ==
    /\ Idle
    /\ \E req \in PageRequests :
        LET pl == Pipeline(req, users) IN
        /\ pl.handler = "getExpenses"
        /\ outcome' = Settled(req, pl, getExpenses(expenses, Val(pl.user).id, pl.query),
                              "n/a", None, 2)
        /\ UNCHANGED <<users, expenses, nextId, inflight>>
    /\ UNCHANGED clientVars

NextList ==
    \/ ListPage
    \/ Settle

SpecList == InitList /\ [][NextList]_vars

\* a list request answered 200
Listed == outcome.handler = "getExpenses" /\ outcome.answered /\ outcome.resp.code = 200

\* the page and the limit a request asks for (1 and 10 when it names none)
AskedPage == IF IsSome(outcome.query.page) THEN Val(outcome.query.page).n ELSE 1
AskedLimit == IF IsSome(outcome.query.limit) THEN Val(outcome.query.limit).n ELSE 10

\* the day bounds of the date range asked for
InDateRange(e) ==
    /\ IsSome(outcome.query.startDate) =>
        e.date >= Val(outcome.query.startDate).t - (Val(outcome.query.startDate).t % MsPerDay)
    /\ IsSome(outcome.query.endDate) =>
        e.date < Val(outcome.query.endDate).t - (Val(outcome.query.endDate).t % MsPerDay) + MsPerDay

\* the caller's rows in the date range whose category is the one supplied,
\* as it was supplied
MatchingSupplied ==
    {e \in expenses :
        /\ Some(e.userId) = outcome.user
        /\ InDateRange(e)
        /\ IsSome(outcome.query.category) => e.category = Val(outcome.query.category)}

\* the caller's rows in the date range whose category is the one supplied
\* with the white space around it removed; an empty category filters nothing
MatchingTrimmed ==
    {e \in expenses :
        /\ Some(e.userId) = outcome.user
        /\ InDateRange(e)
        /\ (IsSome(outcome.query.category) /\ Trim(Val(outcome.query.category)) # <<>>) =>
            e.category = Trim(Val(outcome.query.category))}

\* e comes before f in the ordering by date descending (insertion order
\* among equal dates)
Before(e, f) == e.date > f.date \/ (e.date = f.date /\ e.id < f.id)

\* the position of e in that ordering of the set M
Position(e, M) == Cardinality({f \in M : Before(f, e)}) + 1

\* the rows of the response are the rows of M at positions
\* (page-1)*limit+1 .. page*limit, in order
PageOf(M) ==
    LET rows == outcome.resp.rows
        first == (AskedPage - 1) * AskedLimit + 1
    IN  /\ \A k \in 1..Len(rows) : rows[k] \in M /\ Position(rows[k], M) = first + k - 1
        /\ \A e \in M : Position(e, M) \in first..(first + AskedLimit - 1) =>
                \E k \in 1..Len(rows) : rows[k] = e
        /\ \A k \in 1..(Len(rows) - 1) : rows[k].date >= rows[k + 1].date

\* the rows of all the pages of the request's query, one page after another
RECURSIVE PagesFrom(_, _)
PagesFrom(p, last) ==
    IF p > last THEN <<>>
    ELSE LET req == Request("GET", <<>>, outcome.auth, EmptyBody,
                            [outcome.query EXCEPT !.page = Number(p)])
             pl == Pipeline(req, users)
         IN  getExpenses(expenses, Val(pl.user).id, pl.query).resp.rows \o PagesFrom(p + 1, last)

\* over all its pages the list returns the rows of M, each once
AllPagesOf(M) ==
    LET all == PagesFrom(1, (Cardinality(M) \div AskedLimit) + 1) IN
    /\ {all[k] : k \in 1..Len(all)} = M
    /\ Len(all) = Cardinality(M)

\* C9: for positive page and limit and N rows of the caller matching the
\* filters, list returns min(limit, max(0, N - (page-1)*limit)) rows and
\* pagination total = N, totalPages = ceil(N/limit), hasNextPage = (page <
\* totalPages), hasPrevPage = (page > 1).
C9_Pagination ==
    (Listed /\ AskedPage > 0 /\ AskedLimit > 0) =>
        LET N == Cardinality(MatchingTrimmed)
            pagination == Val(outcome.resp.pagination)
            ceil == CHOOSE k \in 0..N : k * AskedLimit >= N /\ (k = 0 \/ (k - 1) * AskedLimit < N)
        IN  /\ Len(outcome.resp.rows) = Min(AskedLimit, Max(0, N - (AskedPage - 1) * AskedLimit))
            /\ pagination.page = AskedPage
            /\ pagination.limit = AskedLimit
            /\ pagination.total = N
            /\ pagination.totalPages = ceil
            /\ pagination.hasNextPage = (AskedPage < ceil)
            /\ pagination.hasPrevPage = (AskedPage > 1)

\* limit=10, page=2 answered on 25 matching rows: 10 rows, total 25,
\* totalPages 3, a next and a previous page
C9_Witness ==
    /\ Listed
    /\ outcome.query.limit = Number(10)
    /\ outcome.query.page = Number(2)
    /\ Cardinality(MatchingTrimmed) = 25
    /\ Len(outcome.resp.rows) = 10
    /\ Val(outcome.resp.pagination).total = 25
    /\ Val(outcome.resp.pagination).totalPages = 3
    /\ Val(outcome.resp.pagination).hasNextPage
    /\ Val(outcome.resp.pagination).hasPrevPage

\* C10 (amended): the rows list returns over all its pages are exactly the
\* caller's expenses in the date range whose category equals the supplied
\* category with surrounding white space removed (an empty category filters
\* nothing); the rows of a response are in non-increasing order of date, and
\* page p holds the rows at positions (p-1)*limit+1 .. p*limit.
C10_ListedRows == Listed => (PageOf(MatchingTrimmed) /\ AllPagesOf(MatchingTrimmed))

\* a second page cut out of rows some of which the filters leave out: another
\* user's rows, rows of another category, rows outside the date range; the
\* category was supplied with white space around it
C10_Witness ==
    /\ Listed
    /\ outcome.query.category = Some(<<" ", "a">>)
    /\ IsSome(outcome.query.startDate)
    /\ AskedPage = 2
    /\ Len(outcome.resp.rows) = AskedLimit
    /\ \E e \in expenses : Some(e.userId) # outcome.user
    /\ \E e \in expenses : Some(e.userId) = outcome.user /\ e.category # <<"a">>
    /\ \E e \in expenses : Some(e.userId) = outcome.user /\ ~InDateRange(e)
    /\ \E k \in 1..(Len(outcome.resp.rows) - 1) :
            outcome.resp.rows[k].date = outcome.resp.rows[k + 1].date

\* C10 (as claimed): the rows are the caller's expenses in the date range
\* whose category equals the supplied category exactly.
C10_AsClaimed == Listed => (PageOf(MatchingSupplied) /\ AllPagesOf(MatchingSupplied))

-----------------------------------------------------------------------------
(* GET /api/expenses with startDate and endDate, over rows dated around the
   boundaries of 2024-01-01 and 2024-01-02 (instants count from
   2024-01-01T00:00:00.000Z) *)

\* 00:00:00.000, 23:00:00.000 and 23:59:59.999 of 2024-01-01; 00:00:00.000,
\* 00:00:01.000 and 23:59:59.999 of 2024-01-02; 00:00:00.000 of 2024-01-03
RangeInstants == <<0, 82800000, 86399999, MsPerDay, 86401000, 2 * MsPerDay - 1, 2 * MsPerDay>>

\* the caller's row dated RangeInstants[i]
RangeRow(i) ==
    [id |-> i, userId |-> "u1", amount |-> i, category |-> <<"a">>, note |-> None,
     date |-> RangeInstants[i], createdAt |-> 0]

RangeTables == {{RangeRow(i) : i \in I} : I \in SUBSET (1..Len(RangeInstants))}

\* startDate / endDate: absent, a day given as its midnight, a day given with
\* a time of day
RangeQueries ==
    {[EmptyQuery EXCEPT !.startDate = s, !.endDate = e] :
        s \in {None, IsoDate(0), IsoDate(43200000), IsoDate(MsPerDay + 82800000)},
        e \in {None, IsoDate(0), IsoDate(43200000), IsoDate(MsPerDay + 82800000)}}

RangeRequests ==
    {Request("GET", <<>>, BearerAuth(OkToken("u1")), EmptyBody, q) : q \in RangeQueries}

InitRange ==
    /\ users = {UserRow("u1", "a@x.io"), UserRow("u2", "b@x.io")}
    /\ expenses \in RangeTables
    /\ nextId = Len(RangeInstants) + 1
    /\ inflight = EmptyBag
    /\ outcome = NoOutcome
    /\ ClientOff

\* GET / reaching getExpenses with a date range
ListRange ==
    /\ Idle
    /\ \E req \in RangeRequests :
        LET pl == Pipeline(req, users) IN
        /\ pl.handler = "getExpenses"
        /\ outcome' = Settled(req, pl, getExpenses(expenses, Val(pl.user).id, pl.query),
                              "n/a", None, 2)
        /\ UNCHANGED <<users, expenses, nextId, inflight>>
    /\ UNCHANGED clientVars

NextRange ==
    \/ ListRange
    \/ Settle

SpecRange == InitRange /\ [][NextRange]_vars

\* the UTC calendar day an instant lies in, counted from 2024-01-01
DayOf(t) == t \div MsPerDay

\* the rows of the response, as a set
ListedRows == {outcome.resp.rows[k] : k \in 1..Len(outcome.resp.rows)}

\* C11: list with startDate = S and endDate = E includes an expense of the
\* caller iff its date lies between 00:00:00.000 UTC of S's calendar day and
\* 23:59:59.999 UTC of E's calendar day, both inclusive, whatever time of day
\* S and E carry.
C11_DayRange ==
    (Listed /\ IsSome(outcome.query.startDate) /\ IsSome(outcome.query.endDate)) =>
        \A e \in expenses :
            Some(e.userId) = outcome.user =>
                (e \in ListedRows <=>
                    /\ DayOf(e.date) >= DayOf(Val(outcome.query.startDate).t)
                    /\ DayOf(e.date) <= DayOf(Val(outcome.query.endDate).t))

\* startDate = endDate = 2024-01-01 answered on a table holding a row dated
\* 2024-01-01T23:00:00Z, which is listed, and one dated 2024-01-02T00:00:01Z,
\* which is not
C11_Witness ==
    /\ Listed
    /\ outcome.query.startDate = IsoDate(0)
    /\ outcome.query.endDate = IsoDate(0)
    /\ \E e \in expenses : e.date = 82800000 /\ e \in ListedRows
    /\ \E e \in expenses : e.date = 86401000 /\ e \notin ListedRows

-----------------------------------------------------------------------------
(* The '/summary' route: protect, validate(validateExpenseQuery),
   getExpenseSummary.  The router never enters it (GET '/:id' is registered
   first and matches the path), so the route is examined here on its own, on
   the requests it would be handed. *)

\* the where clause getExpenseSummary builds: the caller's rows, the dates as
\* new Date(startDate) and new Date(endDate) give them
SummaryWhere(userId, query) ==
    [userId |-> userId,
     gte |-> IF IsSome(query.startDate) THEN Some(Val(query.startDate).t) ELSE None,
     lte |-> IF IsSome(query.endDate) THEN Some(Val(query.endDate).t) ELSE None,
     category |-> None]

\* _sum: {amount: true} over a set of rows; null over no row
RECURSIVE SumAmount(_)
SumAmount(rows) ==
    IF rows = {} THEN 0
    ELSE LET e == CHOOSE r \in rows : TRUE IN e.amount + SumAmount(rows \ {e})

AggregateSum(rows) == IF rows = {} THEN None ELSE Some(SumAmount(rows))

\* prisma.expense.groupBy({by: ['category'], where, _sum: {amount: true}})
GroupByCategory(rows) ==
    {[category |-> c, sum |-> SumAmount({e \in rows : e.category = c})] :
        c \in {e.category : e \in rows}}

\* orderBy: {_sum: {amount: 'desc'}}
RECURSIVE OrderBySumDesc(_)
OrderBySumDesc(groups) ==
    IF groups = {} THEN <<>>
    ELSE LET first == CHOOSE g \in groups : \A h \in groups : g.sum >= h.sum
         IN  <<first>> \o OrderBySumDesc(groups \ {first})

\* getExpenseSummary: groupBy, then aggregate, then the 200 with
\* total._sum.amount || 0
getExpenseSummary(tbl, userId, query) ==
    LET found == FindMany(tbl, SummaryWhere(userId, query))
        total == AggregateSum(found)
    IN  Answer([Response(200, "success", NoField) EXCEPT
                    !.summary = OrderBySumDesc(GroupByCategory(found)),
                    !.total = Some(IF IsSome(total) /\ Val(total) # 0 THEN Val(total) ELSE 0)])

\* the stack of the '/summary' route on a request
SummaryRoute(req, tbl) ==
    LET gate == protect(req.auth, tbl)
        checked == validate("validateExpenseQuery", req)
        base == [stages |-> <<"protect">>, handler |-> "none", user |-> None,
                 body |-> req.body, query |-> req.query, resp |-> gate.resp]
    IN  IF ~gate.next THEN base
        ELSE IF ~checked.next
        THEN [base EXCEPT !.stages = <<"protect", "validate">>,
                          !.user = gate.user, !.resp = checked.resp]
        ELSE [base EXCEPT !.stages = <<"protect", "validate", "getExpenseSummary">>,
                          !.handler = "getExpenseSummary", !.user = gate.user,
                          !.body = checked.body, !.query = checked.query]

\* rows of two users in three categories, dated at the boundaries of
\* 2024-01-01 and 2024-01-02
SummaryRows ==
    {[id |-> 1, userId |-> "u1", amount |-> 5, category |-> <<"a">>, note |-> None, date |-> 0,
      createdAt |-> 0],
     [id |-> 2, userId |-> "u1", amount |-> 3, category |-> <<"b">>, note |-> None,
      date |-> 82800000,
      createdAt |-> 0],
     [id |-> 3, userId |-> "u1", amount |-> 4, category |-> <<"b">>, note |-> None,
      date |-> 86399999,
      createdAt |-> 0],
     [id |-> 4, userId |-> "u1", amount |-> 2, category |-> <<"a">>, note |-> None,
      date |-> MsPerDay,
      createdAt |-> 0],
     [id |-> 5, userId |-> "u2", amount |-> 9, category |-> <<"a">>, note |-> None,
      date |-> 82800000,
      createdAt |-> 0],
     [id |-> 6, userId |-> "u1", amount |-> 7, category |-> <<"c">>, note |-> None,
      date |-> 86401000,
      createdAt |-> 0],
     [id |-> 7, userId |-> "u1", amount |-> 1, category |-> <<"a">>, note |-> None,
      date |-> 2 * MsPerDay - 1,
      createdAt |-> 0]}

SummaryQueries ==
    {[EmptyQuery EXCEPT !.startDate = s, !.endDate = e] :
        s \in {None, NotADate, IsoDate(0), IsoDate(43200000)},
        e \in {None, IsoDate(0), IsoDate(MsPerDay + 82800000)}}

SummaryRequests ==
    {Request("GET", <<SummarySeg>>, a, EmptyBody, q) :
        a \in {None, BearerAuth(OkToken("u1")), BearerAuth(OkToken("u2"))},
        q \in SummaryQueries}

InitSummary ==
    /\ users = {UserRow("u1", "a@x.io"), UserRow("u2", "b@x.io")}
    /\ expenses \in SUBSET SummaryRows
    /\ nextId = Cardinality(SummaryRows) + 1
    /\ inflight = EmptyBag
    /\ outcome = NoOutcome
    /\ ClientOff

\* a request the route's protect or validate ends
SummaryRejected ==
    /\ Idle
    /\ \E req \in SummaryRequests :
        LET pl == SummaryRoute(req, users) IN
        /\ pl.handler = "none"
        /\ outcome' = Settled(req, pl, Answer(pl.resp), "n/a", None, 0)
        /\ UNCHANGED <<users, expenses, nextId, inflight>>
    /\ UNCHANGED clientVars

\* a request reaching getExpenseSummary
GetExpenseSummary ==
    /\ Idle
    /\ \E req \in SummaryRequests :
        LET pl == SummaryRoute(req, users) IN
        /\ pl.handler = "getExpenseSummary"
        /\ outcome' = Settled(req, pl, getExpenseSummary(expenses, Val(pl.user).id, pl.query),
                              "n/a", None, 2)
        /\ UNCHANGED <<users, expenses, nextId, inflight>>
    /\ UNCHANGED clientVars

NextSummary ==
    \/ SummaryRejected
    \/ GetExpenseSummary
    \/ Settle

SpecSummary == InitSummary /\ [][NextSummary]_vars

\* a summary request answered 200
Summarised ==
    outcome.handler = "getExpenseSummary" /\ outcome.answered /\ outcome.resp.code = 200

\* the rows list returns, over all its pages, for the caller and the
\* startDate / endDate of the request, with no category filter
ListedForSameRange ==
    {e \in expenses :
        /\ Some(e.userId) = outcome.user
        /\ IsSome(outcome.query.startDate) =>
                DayOf(e.date) >= DayOf(Val(outcome.query.startDate).t)
        /\ IsSome(outcome.query.endDate) =>
                DayOf(e.date) <= DayOf(Val(outcome.query.endDate).t)}

\* the response's entries are the categories of the rows M, one entry each,
\* with the sum of the amounts of its rows, in non-increasing order of sum,
\* and the total is the sum over M (0 over no row)
SummaryOf(M) ==
    LET entries == outcome.resp.summary IN
    /\ {entries[k].category : k \in 1..Len(entries)} = {e.category : e \in M}
    /\ Len(entries) = Cardinality({e.category : e \in M})
    /\ \A k \in 1..Len(entries) :
            entries[k].sum = SumAmount({e \in M : e.category = entries[k].category})
    /\ \A k \in 1..(Len(entries) - 1) : entries[k].sum >= entries[k + 1].sum
    /\ outcome.resp.total = Some(SumAmount(M))

\* C12 (as claimed): for the same caller and the same startDate / endDate,
\* summary aggregates exactly the rows list returns: an expense dated at any
\* time on the endDate calendar day is counted in the totals.
C12_AsClaimed == Summarised => SummaryOf(ListedForSameRange)

\* the caller's rows dated between the startDate and the endDate of the
\* request
InSummaryRange ==
    {e \in expenses :
        /\ Some(e.userId) = outcome.user
        /\ IsSome(outcome.query.startDate) => e.date >= Val(outcome.query.startDate).t
        /\ IsSome(outcome.query.endDate) => e.date <= Val(outcome.query.endDate).t}

\* what getExpenseSummary answers when the route is run on its own: the
\* categories, sums and total of the rows between the instants given
SummaryAsComputed == Summarised => SummaryOf(InSummaryRange)

\* C13 (as claimed): GET /summary by an authenticated caller returns one
\* entry per distinct category among the caller's expenses in the date range,
\* each with the sum of amount of its rows, in non-increasing order of total,
\* and a grand total equal to the sum over the same rows (an empty list and 0
\* when no row matches).
C13_AsClaimed ==
    (outcome.method = "GET" /\ outcome.path = <<SummarySeg>> /\ Authenticated
        /\ validateExpenseQuery(outcome.query) = <<>>) =>
        (Summarised /\ SummaryOf(InSummaryRange))

-----------------------------------------------------------------------------
(* POST /, GET /:id, PATCH /:id and DELETE /:id of one user, with bodies that
   carry every field: valid, violating a rule, or refused by the store *)

FieldBody(amount, category, note, date) ==
    [EmptyBody EXCEPT !.amount = amount, !.category = category, !.note = note, !.date = date]

\* the instant a create request is served at: 2024-01-01T01:00:00Z
FieldClock == {3600000}

FieldCreateBodies ==
    {FieldBody(Some(5), Some(<<" ", "a">>), None, None),
     FieldBody(Some(5), Some(<<"a", " ">>), Some(<<" ", "n", " ">>), IsoDate(MsPerDay)),
     FieldBody(Some(0), Some(<<"a">>), None, None),
     FieldBody(None, Some(<<"a">>), None, None),
     FieldBody(Some(5), Some(<<" ">>), None, None),
     FieldBody(Some(5), Some(<<"a">>), None, DateOnly(0)),
     FieldBody(Some(5), Some(<<"a">>), None, NotADate)}

FieldUpdateBodies ==
    {EmptyBody,
     FieldBody(Some(7), None, None, None),
     FieldBody(None, Some(<<"b", " ">>), None, None),
     FieldBody(Some(7), Some(<<"b", " ">>), Some(<<" ", "m">>), IsoDate(2 * MsPerDay)),
     FieldBody(Some(0), None, None, None),
     FieldBody(None, Some(<<" ">>), None, None),
     FieldBody(None, None, None, DateOnly(0))}

FieldSegments == {[uuid |-> n] : n \in 1..(MaxExpenses + 1)}

FieldRequests ==
    {Request("POST", <<>>, BearerAuth(OkToken("u1")), b, EmptyQuery) : b \in FieldCreateBodies}
    \cup {Request("PATCH", <<seg>>, BearerAuth(OkToken("u1")), b, EmptyQuery) :
            seg \in FieldSegments, b \in FieldUpdateBodies}
    \cup {Request(m, <<seg>>, BearerAuth(OkToken("u1")), EmptyBody, EmptyQuery) :
            m \in {"GET", "DELETE"}, seg \in FieldSegments}

InitFields ==
    /\ users = {UserRow("u1", "a@x.io")}
    /\ expenses = {}
    /\ nextId = 1
    /\ inflight = EmptyBag
    /\ outcome = NoOutcome
    /\ ClientOff

\* a request validate ends
FieldsRejected ==
    /\ Idle
    /\ \E req \in FieldRequests :
        LET pl == Pipeline(req, users) IN
        /\ pl.handler = "none"
        /\ outcome' = Settled(req, pl, Answer(pl.resp), "n/a", None, 0)
        /\ UNCHANGED <<users, expenses, nextId, inflight>>
    /\ UNCHANGED clientVars

\* POST / reaching createExpense
FieldsCreate ==
    /\ Idle
    /\ nextId <= MaxExpenses
    /\ \E req \in FieldRequests, now \in FieldClock :
        LET pl == Pipeline(req, users)
            done == createExpense(nextId, Val(pl.user).id, pl.body, now)
        IN  /\ pl.handler = "createExpense"
            /\ expenses' = expenses \cup done.inserted
            /\ nextId' = nextId + Cardinality(done.inserted)
            /\ outcome' = Settled(req, pl, done.result, "n/a", done.created, 1)
            /\ UNCHANGED <<users, inflight>>
    /\ UNCHANGED clientVars

\* GET /:id reaching getExpense
FieldsGet ==
    /\ Idle
    /\ \E req \in FieldRequests :
        LET pl == Pipeline(req, users) IN
        /\ pl.handler = "getExpense"
        /\ outcome' = Settled(req, pl, getExpense(expenses, Val(pl.user).id, req.path[1]),
                              "n/a", None, 1)
        /\ UNCHANGED <<users, expenses, nextId, inflight>>
    /\ UNCHANGED clientVars

\* PATCH /:id and DELETE /:id reaching their controller: findUnique and the
\* ownership check
FieldsFind ==
    /\ Idle
    /\ \E req \in FieldRequests :
        LET pl == Pipeline(req, users)
            userId == Val(pl.user).id
            seg == req.path[1]
            check == IF pl.handler = "updateExpense"
                     THEN updateExpenseCheck(expenses, userId, seg)
                     ELSE deleteExpenseCheck(expenses, userId, seg)
        IN  /\ pl.handler \in {"updateExpense", "deleteExpense"}
            /\ IF check.answered
               THEN /\ BagCardinality(inflight) < MaxInFlight
                    /\ inflight' = inflight (+) SetToBag({Suspended(pl.handler, userId, seg,
                                        IF pl.handler = "updateExpense" THEN pl.body ELSE EmptyBody,
                                        req.body)})
                    /\ UNCHANGED outcome
               ELSE /\ outcome' = Settled(req, pl, check, Target(expenses, userId, seg), None, 1)
                    /\ UNCHANGED inflight
            /\ UNCHANGED <<users, expenses, nextId>>
    /\ UNCHANGED clientVars

\* the update statement of a suspended updateExpense
FieldsUpdate ==
    /\ Idle
    /\ \E p \in BagToSet(inflight) :
        /\ p.op = "updateExpense"
        /\ expenses' = TableAfterUpdate(expenses, p.seg, p.data)
        /\ inflight' = inflight (-) SetToBag({p})
        /\ outcome' = Settled(RequestOf(p), PipelineOf(p),
                              updateExpenseResult(expenses, p.seg, p.data), "own", None, 2)
        /\ UNCHANGED <<users, nextId>>
    /\ UNCHANGED clientVars

\* the delete statement of a suspended deleteExpense
FieldsDelete ==
    /\ Idle
    /\ \E p \in BagToSet(inflight) :
        /\ p.op = "deleteExpense"
        /\ expenses' = TableAfterDelete(expenses, p.seg)
        /\ inflight' = inflight (-) SetToBag({p})
        /\ outcome' = Settled(RequestOf(p), PipelineOf(p),
                              deleteExpenseResult(expenses, p.seg), "own", None, 2)
        /\ UNCHANGED <<users, nextId>>
    /\ UNCHANGED clientVars

NextFields ==
    \/ FieldsRejected
    \/ FieldsCreate
    \/ FieldsGet
    \/ FieldsFind
    \/ FieldsUpdate
    \/ FieldsDelete
    \/ Settle

SpecFields == InitFields /\ [][NextFields]_vars

\* the row of the table with an id
RowWithId(tbl, id) == CHOOSE e \in tbl : e.id = id

\* a field as submitted, with the white space around it removed
Trimmed(o) == IF IsSome(o) THEN Some(Trim(Val(o))) ELSE None

\* a create request answered 201
Created == outcome.handler = "createExpense" /\ outcome.answered /\ outcome.resp.code = 201

\* the record a getById of the creator answers right after a create holds the
\* values submitted
CreateThenGet ==
    Created =>
        LET id == outcome.resp.rows[1].id
            got == getExpense(expenses, Val(outcome.user), [uuid |-> id])
            row == got.resp.rows[1]
        IN  /\ got.answered /\ got.resp.code = 200
            /\ row.id = id
            /\ row.amount = Val(outcome.body.amount)
            /\ row.category = Trim(Val(outcome.body.category))
            /\ row.note = Trimmed(outcome.body.note)
            /\ IF IsSome(outcome.body.date) THEN row.date = Val(outcome.body.date).t
               ELSE row.date \in FieldClock /\ row.date = row.createdAt

\* a getById answered 200 returns the row the table holds under the id
GetReturnsStored ==
    (outcome.handler = "getExpense" /\ outcome.answered /\ outcome.resp.code = 200) =>
        /\ \E e \in expenses : e.id = outcome.path[1].uuid
        /\ outcome.resp.rows = <<RowWithId(expenses, outcome.path[1].uuid)>>

\* a row of the table stays as it is unless an update or a delete of its id
\* runs its statement
RowKeptUnlessWritten ==
    \A e \in expenses :
        e \notin expenses' =>
            /\ outcome'.handler \in {"updateExpense", "deleteExpense"}
            /\ outcome'.path = <<[uuid |-> e.id]>>

\* C14: after a successful create by U, getById by U with the returned id
\* returns a record whose amount, category, note and date equal the values
\* submitted (category and note trimmed, date the creation instant when
\* omitted), provided no update or delete of that id happened in between.
C14_RoundTrip == [](CreateThenGet /\ GetReturnsStored) /\ [][RowKeptUnlessWritten]_vars

\* a getById answering the record of a create that carried a note with white
\* space around it and a date
C14_Witness ==
    /\ outcome.handler = "getExpense" /\ outcome.answered /\ outcome.resp.code = 200
    /\ outcome.resp.rows[1].amount = 5
    /\ outcome.resp.rows[1].category = <<"a">>
    /\ outcome.resp.rows[1].note = Some(<<"n">>)
    /\ outcome.resp.rows[1].date = MsPerDay

\* the rules on amount and category a body violates
ViolatesFieldRules(method, body) ==
    \/ method = "POST" /\ ~(IsSome(body.amount) /\ Val(body.amount) > 0)
    \/ method = "POST" /\ ~(IsSome(body.category) /\ Trim(Val(body.category)) # <<>>)
    \/ method = "PATCH" /\ IsSome(body.amount) /\ ~(Val(body.amount) > 0)
    \/ method = "PATCH" /\ IsSome(body.category) /\ Trim(Val(body.category)) = <<>>

StoredFieldsValid == \A e \in expenses : e.amount > 0 /\ Trim(e.category) # <<>>

\* C16: after any sequence of create and update requests every stored
\* expense has amount > 0 and a category that is non-empty after trimming;
\* no request that violates these rules changes the store.
C16_StoredFieldsValid ==
    /\ [](StoredFieldsValid)
    /\ [][ViolatesFieldRules(outcome'.method, outcome'.body) => expenses' = expenses]_vars

\* an update with amount 0 turned down while the table holds a row
C16_Witness ==
    /\ outcome.method = "PATCH"
    /\ outcome.body.amount = Some(0)
    /\ outcome.resp.code = 400
    /\ \E e \in expenses : outcome.path = <<[uuid |-> e.id]>>

\* the value an update gives a field: the one submitted when the body has
\* the field, the prior one otherwise
FieldAfter(submitted, prior) == IF IsSome(submitted) THEN Val(submitted) ELSE prior

\* the step is an update answered 200
UpdateSucceeds ==
    outcome'.handler = "updateExpense" /\ outcome'.answered /\ outcome'.resp.code = 200

\* C17: a successful update changes exactly those of amount, category, note
\* and date that are present in the request body; absent fields keep their
\* prior value, and id, userId and createdAt of the expense, and every other
\* row, are unchanged.
C17_UpdateFrame ==
    [][UpdateSucceeds =>
        \E old \in expenses, new \in expenses' :
            /\ outcome'.path = <<[uuid |-> old.id]>>
            /\ new.id = old.id /\ new.userId = old.userId /\ new.createdAt = old.createdAt
            /\ new.amount = FieldAfter(outcome'.body.amount, old.amount)
            /\ new.category = FieldAfter(Trimmed(outcome'.body.category), old.category)
            /\ new.note = IF IsSome(outcome'.body.note) THEN Trimmed(outcome'.body.note)
                          ELSE old.note
            /\ new.date = IF IsSome(outcome'.body.date) THEN Val(outcome'.body.date).t
                          ELSE old.date
            /\ expenses' \ {new} = expenses \ {old}]_vars

\* an update of the amount alone answered 200 on a row that has a note, while
\* the table holds another row
C17_Witness ==
    /\ outcome.handler = "updateExpense" /\ outcome.answered /\ outcome.resp.code = 200
    /\ outcome.body = FieldBody(Some(7), None, None, None)
    /\ outcome.resp.rows[1].note = Some(<<"n">>)
    /\ outcome.resp.rows[1].category = <<"a">>
    /\ Cardinality(expenses) = 2

\* the request the outcome on record settled
OutcomeRequest ==
    Request(outcome.method, outcome.path, outcome.auth, outcome.body, outcome.query)

\* the violations the chains of the request's route report
OutcomeViolations ==
    LET i == MatchRoute(ExpenseRoutes, outcome.method, outcome.path) IN
    IF i = 0 THEN <<>> ELSE Violations(ExpenseRoutes[i].validations, OutcomeRequest)

\* C15 (as claimed): a request that violates k >= 1 validation rules is
\* rejected with a single 400 response whose body carries the list of
\* violations, one {field, message} pair per violated rule.
C15_AsClaimed ==
    (outcome.stages = <<"protect", "validate">> /\ OutcomeViolations # <<>>) =>
        /\ outcome.answered
        /\ outcome.resp.code = 400
        /\ outcome.resp.errors = OutcomeViolations

\* the envelope of a response: "success" on 2xx, "fail" and a message on
\* 4xx, "error" and a message on 5xx
Envelope(resp) ==
    /\ resp.code \in 200..299 => resp.status = "success"
    /\ resp.code \in 400..499 => resp.status = "fail" /\ resp.message # NoField
    /\ resp.code \in 500..599 => resp.status = "error" /\ resp.message # NoField

\* C18 (as claimed): every response the backend sends conforms to the
\* envelope, those of the gate and of the unmatched-route handler included.
C18_AsClaimed == (outcome.method # "none" /\ outcome.answered) => Envelope(outcome.resp)

\* C19 (as claimed): a request to POST /, GET /summary, PATCH /:id or
\* DELETE /:id whose controller raises an error is answered with an error
\* envelope carrying that error's status code and message.
C19_AsClaimed ==
    (outcome.handler \in {"createExpense", "getExpenseSummary", "updateExpense", "deleteExpense"}
        /\ IsSome(outcome.thrown)) =>
        /\ outcome.answered
        /\ outcome.resp.code = Val(outcome.thrown).statusCode
        /\ outcome.resp.status = Val(outcome.thrown).status
        /\ outcome.resp.message = Val(outcome.thrown).message

\* a record that has no password field and whose free-text field, name, does
\* not hold a user's password hash (ids, emails and token kinds are strings
\* that are no hash)
HashFree(r) ==
    /\ "password" \notin DOMAIN r
    /\ "name" \in DOMAIN r => \A u \in users : r.name # u.password

\* C20: no response body and no identity the gate attaches to a request
\* contains a user's password hash.
C20_NoPasswordHash ==
    /\ IsSome(outcome.resp.user) => HashFree(Val(outcome.resp.user))
    /\ IsSome(outcome.resp.token) => HashFree(Val(outcome.resp.token))
    /\ \A u \in users :
            LET gate == protect(BearerAuth(OkToken(u.id)), users) IN
            gate.next /\ HashFree(Val(gate.user))

\* a register answered 201 with the new user, whose stored row holds a hash
\* and whose token the gate resolves to an identity
C20_Witness ==
    /\ outcome.handler = "register"
    /\ outcome.resp.code = 201
    /\ IsSome(outcome.resp.user)
    /\ \E u \in users :
            /\ u.id = Val(outcome.resp.user).id
            /\ u.password = Hash(<<"s", "e", "c", "r", "e", "t">>)
            /\ protect(BearerAuth(Val(outcome.resp.token)), users).user = Some(PublicUser(u))

-----------------------------------------------------------------------------
(* GET /api/expenses with every kind of page and limit parameter *)

\* missing, non-numeric, zero, negative, positive
PagingParams == {None, NotANumber, Number(0), Number(0 - 1), Number(2)}

PagingQueries == {[EmptyQuery EXCEPT !.page = p, !.limit = l] : p, l \in PagingParams}

PagingRequests ==
    {Request("GET", <<>>, BearerAuth(OkToken("u1")), EmptyBody, q) : q \in PagingQueries}

InitPaging ==
    /\ users = {UserRow("u1", "a@x.io"), UserRow("u2", "b@x.io")}
    /\ expenses \in ListTables
    /\ nextId = Cardinality(expenses) + 1
    /\ inflight = EmptyBag
    /\ outcome = NoOutcome
    /\ ClientOff

\* GET / reaching getExpenses with page and limit
ListPaging ==
    /\ Idle
    /\ \E req \in PagingRequests :
        LET pl == Pipeline(req, users) IN
        /\ pl.handler = "getExpenses"
        /\ outcome' = Settled(req, pl, getExpenses(expenses, Val(pl.user).id, pl.query),
                              "n/a", None, 2)
        /\ UNCHANGED <<users, expenses, nextId, inflight>>
    /\ UNCHANGED clientVars

NextPaging ==
    \/ ListPaging
    \/ Settle

SpecPaging == InitPaging /\ [][NextPaging]_vars

\* a query parameter that is missing or not a number
Defaulted(param) == ~IsSome(param) \/ ~Val(param).num

\* C21 (as claimed): whatever page and limit a list request carries, it does
\* not fail, the page and limit it uses are positive integers, and a missing
\* or non-numeric value becomes page = 1 / limit = 10.
C21_AsClaimed ==
    outcome.handler = "getExpenses" =>
        /\ outcome.answered /\ outcome.resp.code = 200
        /\ Val(outcome.resp.pagination).page > 0
        /\ Val(outcome.resp.pagination).limit > 0
        /\ Defaulted(outcome.query.page) => Val(outcome.resp.pagination).page = 1
        /\ Defaulted(outcome.query.limit) => Val(outcome.resp.pagination).limit = 10

-----------------------------------------------------------------------------
(* Refused requests and the tables *)

\* the request on record ended with a 4xx: as the response sent, or as the
\* AppError its handler raised
Refused(o) ==
    \/ o.answered /\ o.resp.code \in 400..499
    \/ /\ "thrown" \in DOMAIN o
       /\ IsSome(o.thrown)
       /\ Val(o.thrown).statusCode \in 400..499

\* C22: a step that ends a request with a 4xx (validation failure, missing,
\* invalid or expired token, forbidden, not found, duplicate email) leaves
\* the users and expenses tables exactly as they were.
C22_RefusedLeavesTables ==
    [][Refused(outcome') /\ outcome' # outcome
            => users' = users /\ expenses' = expenses]_vars

\* a PATCH or DELETE was refused with a 4xx while the table holds rows
C22_Witness ==
    /\ Refused(outcome)
    /\ outcome.method \in {"PATCH", "DELETE"}
    /\ outcome.handler \in {"updateExpense", "deleteExpense"}
    /\ expenses # {}

-----------------------------------------------------------------------------
(* POST /api/auth/login *)

\* the rows of tbl the credentials of the login request on record fit
Verified(tbl, o) == {u \in tbl : u.email = o.email /\ u.password = Hash(o.password)}

\* the request on record got the token of a user the credentials fit
TokenOfVerified(tbl, o) ==
    /\ o.answered /\ o.resp.code = 200
    /\ \E u \in Verified(tbl, o) :
           o.resp.token = Some([kind |-> "ok", id |-> u.id, email |-> u.email])

\* the request on record was answered with the code and got no token
NoTokenWith(o, code) == o.answered /\ o.resp.code = code /\ o.resp.token = None

\* a step that ends a login request
LoginEnds == outcome' # outcome /\ outcome'.method = "POST" /\ outcome'.route = "/login"

\* C23 (amended): login answers 200 with the token of {id, email} of U
\* exactly when a row with the email exists and the password verifies; a body
\* that validate refuses gets 400, any other gets 401, both without a token;
\* and login leaves the users table as it is.
C23_Login ==
    [][LoginEnds =>
         /\ users' = users
         /\ IF outcome'.handler = "validate" THEN NoTokenWith(outcome', 400)
            ELSE IF Verified(users, outcome') # {} THEN TokenOfVerified(users, outcome')
            ELSE NoTokenWith(outcome', 401)]_vars

\* a login with the credentials of a registered user got its token
C23_Witness ==
    /\ outcome.method = "POST" /\ outcome.route = "/login"
    /\ Verified(users, outcome) # {}
    /\ TokenOfVerified(users, outcome)

\* C23 (as claimed): login answers 200 with the token of U exactly when the
\* email has a row and the password verifies, and 401 without a token in
\* every other case; login leaves the users table as it is.
C23_AsClaimed ==
    [][LoginEnds =>
         /\ users' = users
         /\ IF Verified(users, outcome') # {} THEN TokenOfVerified(users, outcome')
            ELSE NoTokenWith(outcome', 401)]_vars

-----------------------------------------------------------------------------
(* An update and a delete of one expense by its owner *)

\* how the request on record ended: the code of its response, or of the
\* AppError its handler raised
EndsWith(o, codes) ==
    \/ o.answered /\ o.resp.code \in codes
    \/ IsSome(o.thrown) /\ Val(o.thrown).statusCode \in codes

\* a step that ends an update or a delete an owner sent
OwnerWriteEnds(handler) ==
    /\ outcome' # outcome
    /\ outcome'.handler = handler
    /\ outcome'.target # "foreign"

\* C24 (as claimed): an update of the owner that runs next to a delete of
\* the same expense ends with 200 or NotFound, never with a server error;
\* the delete ends with success when it finds the row, and once it has
\* finished the row does not exist.
C24_AsClaimed ==
    [][/\ OwnerWriteEnds("updateExpense") => EndsWith(outcome', {200, 404})
       /\ OwnerWriteEnds("deleteExpense") /\ outcome'.statements = 2 =>
             /\ RowsWithId(expenses', outcome'.path[1]) = {}
             /\ RowsWithId(expenses, outcome'.path[1]) # {} => EndsWith(outcome', {204})]_vars

-----------------------------------------------------------------------------
(* getExpenseSummary next to writes: its two queries are two awaits, with
   no transaction around them *)

\* const expenses = await prisma.expense.groupBy(...)
summaryGroupBy(tbl, userId, query) ==
    OrderBySumDesc(GroupByCategory(FindMany(tbl, SummaryWhere(userId, query))))

\* const total = await prisma.expense.aggregate(...), then the 200 holding
\* the groups read before and total._sum.amount || 0
summaryAggregate(tbl, userId, query, groups) ==
    LET total == AggregateSum(FindMany(tbl, SummaryWhere(userId, query))) IN
    Answer([Response(200, "success", NoField) EXCEPT
                !.summary = groups,
                !.total = Some(IF IsSome(total) /\ Val(total) # 0 THEN Val(total) ELSE 0)])

RaceSummaryRequests ==
    {Request("GET", <<SummarySeg>>, BearerAuth(OkToken(u)), EmptyBody, EmptyQuery) :
        u \in {"u1", "u2"}}

\* a summary request up to the end of its groupBy; it is suspended before
\* its aggregate
SummaryGroupBy ==
    /\ Idle
    /\ BagCardinality(inflight) < MaxInFlight
    /\ \E req \in RaceSummaryRequests :
        LET pl == SummaryRoute(req, users) IN
        /\ pl.handler = "getExpenseSummary"
        /\ inflight' = inflight (+) SetToBag({[op |-> "getExpenseSummary", req |-> req,
                          groups |-> summaryGroupBy(expenses, Val(pl.user).id, pl.query)]})
        /\ UNCHANGED <<users, expenses, nextId, outcome>>
    /\ UNCHANGED clientVars

\* the aggregate of a suspended summary request, then its 200
SummaryAggregate ==
    /\ Idle
    /\ \E p \in BagToSet(inflight) :
        /\ p.op = "getExpenseSummary"
        /\ LET pl == SummaryRoute(p.req, users) IN
           outcome' = Settled(p.req, pl,
                              summaryAggregate(expenses, Val(pl.user).id, pl.query, p.groups),
                              "n/a", None, 2)
        /\ inflight' = inflight (-) SetToBag({p})
        /\ UNCHANGED <<users, expenses, nextId>>
    /\ UNCHANGED clientVars

NextSummaryRace ==
    \/ SummaryGroupBy
    \/ SummaryAggregate
    \/ CreateExpense
    \/ UpdateExpenseFind
    \/ UpdateExpenseWrite
    \/ DeleteExpenseFind
    \/ DeleteExpenseWrite
    \/ Settle

SpecSummaryRace == Init /\ [][NextSummaryRace]_vars

RECURSIVE SumOfGroups(_)
SumOfGroups(groups) ==
    IF groups = <<>> THEN 0 ELSE Head(groups).sum + SumOfGroups(Tail(groups))

\* C25 (as claimed): in every interleaving of a summary request with create,
\* update and delete requests of the same owner, the grand total of the
\* summary response is the sum of the per-category totals of that response.
C25_AsClaimed ==
    Summarised => outcome.resp.total = Some(SumOfGroups(outcome.resp.summary))

-----------------------------------------------------------------------------
(* The mobile client's ExpensesProvider with debounced fetching.  A filters
   object is a record of optional fields; the key JSON.stringify gives it is
   the record itself (the keys are always written in the order page, limit,
   category).  The provider stays mounted. *)

\* fetchExpenses calls one run follows
MaxCalls == 2
\* expense rows the server may hold in a run of the provider specification
MaxClientRows == 4

\* {...a, ...b}
Merge(a, b) == [k \in DOMAIN a |-> IF IsSome(b[k]) THEN b[k] ELSE a[k]]

\* useState<ExpenseFilters>({page: 1, limit: 10})
DefaultFilters == [page |-> Some(1), limit |-> Some(10), category |-> None]

\* const stableFilters = {page: 1, limit: 10, ...filters}
StableFilters(filters) == Merge(DefaultFilters, filters)

\* the query string URLSearchParams builds from the merged filters
QueryOf(filters) ==
    [EmptyQuery EXCEPT !.page = Number(Val(filters.page)),
                       !.limit = Number(Val(filters.limit)),
                       !.category = filters.category]

\* what the backend answers to a request of the client
ServerAnswer(req, tbl, userTbl) ==
    LET pl == Pipeline(req, userTbl) IN
    IF pl.handler = "getExpenses" THEN getExpenses(tbl, Val(pl.user).id, pl.query).resp
    ELSE pl.resp

\* the api module's request interceptor: the stored token as Bearer header
AuthorizationOf(store) ==
    IF IsSome(store.userToken) THEN BearerAuth(Val(store.userToken)) ELSE None

\* the api module's response interceptor: a 401 deletes userToken and
\* userInfo from the device
AfterResponse(store, code) ==
    IF code = 401 THEN [userToken |-> None, userInfo |-> None] ELSE store

\* a fetchExpenses call that was not made yet
NoCall == [pc |-> "idle", filters |-> DefaultFilters, force |-> FALSE,
           captured |-> DefaultFilters, token |-> None, resp |-> None]

\* the list after setExpenses(prev => page > 1 ? [...prev, ...data] : data)
Appended(prev, page, data) == IF page > 1 THEN prev \o data ELSE data

\* the provider after the debounced function got the 200 of its GET (lines
\* 164-199) and fetchExpenses went on with the result (lines 236-275)
AfterFetched(pr, call, resp) ==
    LET merged == Merge(call.captured, call.filters)
        data == resp.rows
        pagination == Val(resp.pagination)
        inner == Appended(pr.expenses, Val(merged.page), data)
    IN  [pr EXCEPT !.expenses = Appended(inner, Val(call.filters.page), data),
                   !.currentPage = pagination.page,
                   !.totalPages = pagination.totalPages,
                   !.totalItems = pagination.total,
                   !.lastFetchKey = Some(merged),
                   !.currentFilters = IF merged = call.filters THEN merged ELSE call.filters,
                   !.loading = FALSE,
                   !.isFetching = FALSE,
                   !.timeout = 0]

\* the provider after the debounced function threw (no token, or the GET
\* failed): both catch blocks and both finally blocks
AfterFetchFailed(pr) ==
    [pr EXCEPT !.error = TRUE, !.loading = FALSE, !.isFetching = FALSE]

\* the rows updateExpense and deleteExpense are called for: the newest of
\* the rows the app starts with, and the row addExpense creates
TargetIds == {3, MaxClientRows}

FetchFilters ==
    {[page |-> None, limit |-> None, category |-> None],
     [page |-> Some(1), limit |-> Some(2), category |-> None],
     [page |-> Some(2), limit |-> Some(2), category |-> None]}

\* the rows the server holds when the app starts: three rows of u1
ProviderRows ==
    {[id |-> i, userId |-> "u1", amount |-> i, category |-> <<"a">>, note |-> None,
      date |-> i * MsPerDay, createdAt |-> 0] : i \in 1..3}

InitProvider ==
    /\ users = {UserRow("u1", "a@x.io"), UserRow("u2", "b@x.io")}
    /\ expenses = ProviderRows
    /\ nextId = Cardinality(ProviderRows) + 1
    /\ inflight = EmptyBag
    /\ outcome = NoOutcome
    /\ secureStore \in {[userToken |-> t, userInfo |-> None] :
                           t \in {None, Some(OkToken("u1")),
                                  Some([kind |-> "expired", id |-> "u1"])}}
    /\ session = [userToken |-> None]
    /\ provider = [expenses |-> <<>>, loading |-> FALSE, error |-> FALSE,
                   currentPage |-> 1, totalPages |-> 1, totalItems |-> 0,
                   currentFilters |-> DefaultFilters,
                   isFetching |-> FALSE, lastFetchKey |-> None,
                   timeout |-> 0, made |-> 0,
                   calls |-> [id \in 1..MaxCalls |-> NoCall]]

\* fetchExpenses(filters, force) up to its await of the debounced function:
\* the call returns at once when it is skipped; otherwise it sets the flag
\* and the key, and the debounce wrapper clears the pending timer of its
\* instance and starts a new one
Fetch(filters, force) ==
    LET id == provider.made + 1
        stable == StableFilters(filters)
        skip == \/ provider.isFetching /\ ~force
                \/ provider.lastFetchKey = Some(stable) /\ ~force
    IN  /\ provider.made < MaxCalls
        /\ provider' =
             IF skip
             THEN [provider EXCEPT !.made = id, !.calls[id].pc = "skipped"]
             ELSE [provider EXCEPT
                     !.made = id,
                     !.isFetching = TRUE,
                     !.lastFetchKey = Some(stable),
                     !.loading = TRUE,
                     !.error = FALSE,
                     !.timeout = id,
                     !.calls = [c \in 1..MaxCalls |->
                                  IF c = id
                                  THEN [pc |-> "timer", filters |-> stable, force |-> force,
                                        captured |-> provider.currentFilters, token |-> None,
                                        resp |-> None]
                                  ELSE IF c = provider.timeout
                                  THEN [@[c] EXCEPT !.pc = "superseded"]
                                  ELSE @[c]]]
        /\ UNCHANGED <<users, expenses, nextId, inflight, outcome, secureStore, session>>

\* a caller of the provider: the initial load, a refresh, a filter change
FetchExpenses ==
    \E filters \in FetchFilters, force \in BOOLEAN : Fetch(filters, force)

\* the list screen's handleLoadMore
LoadMore ==
    /\ ~provider.loading
    /\ provider.currentPage < provider.totalPages
    /\ Fetch([provider.currentFilters EXCEPT !.page = Some(provider.currentPage + 1)], FALSE)

\* the timer of a debounced call fires: the debounced function runs up to
\* its await of SecureStore.getItemAsync, or returns undefined when it takes
\* the call for a duplicate, and fetchExpenses then returns undefined
TimerFires(id) ==
    LET call == provider.calls[id]
        merged == Merge(call.captured, call.filters)
        skip == provider.isFetching /\ provider.lastFetchKey = Some(merged) /\ ~call.force
        cleared == IF provider.timeout = id THEN 0 ELSE provider.timeout
    IN  /\ call.pc = "timer"
        /\ provider' =
             IF skip
             THEN [provider EXCEPT !.timeout = cleared, !.loading = FALSE,
                                   !.calls[id].pc = "returned"]
             ELSE [provider EXCEPT !.timeout = cleared, !.loading = TRUE, !.error = FALSE,
                                   !.isFetching = TRUE, !.lastFetchKey = Some(merged),
                                   !.calls[id].pc = "token"]
        /\ UNCHANGED <<users, expenses, nextId, inflight, outcome, secureStore, session>>

\* SecureStore.getItemAsync("userToken") resolves: the GET is sent, or the
\* call throws "No authentication token found"
TokenRead(id) ==
    /\ provider.calls[id].pc = "token"
    /\ provider' =
         IF IsSome(secureStore.userToken)
         THEN [provider EXCEPT !.calls[id].pc = "get",
                               !.calls[id].token = secureStore.userToken]
         ELSE [AfterFetchFailed(provider) EXCEPT !.calls[id].pc = "threw"]
    /\ UNCHANGED <<users, expenses, nextId, inflight, outcome, secureStore, session>>

\* the backend serves the GET /expenses of a call
ServerAnswers(id) ==
    LET call == provider.calls[id]
        req == Request("GET", <<>>, BearerAuth(Val(call.token)), EmptyBody,
                       QueryOf(Merge(call.captured, call.filters)))
    IN  /\ call.pc = "get"
        /\ ~IsSome(call.resp)
        /\ provider' = [provider EXCEPT
                            !.calls[id].resp = Some(ServerAnswer(req, expenses, users))]
        /\ UNCHANGED <<users, expenses, nextId, inflight, outcome, secureStore, session>>

\* the GET /expenses of a call settles: the backend's answer arrives, or
\* the network fails or the 10 s timeout of axios passes
GetReturns(id) ==
    LET call == provider.calls[id] IN
    /\ call.pc = "get"
    /\ \E arrived \in {b \in BOOLEAN : b => IsSome(call.resp)} :
         /\ provider' =
              IF arrived /\ Val(call.resp).code \in 200..299
              THEN [AfterFetched(provider, call, Val(call.resp)) EXCEPT
                       !.calls[id].pc = "returned"]
              ELSE [AfterFetchFailed(provider) EXCEPT !.calls[id].pc = "threw"]
         /\ secureStore' = IF arrived THEN AfterResponse(secureStore, Val(call.resp).code)
                           ELSE secureStore
    /\ UNCHANGED <<users, expenses, nextId, inflight, outcome, session>>

\* addExpense: POST /expenses and, on its 201, the new row put first
AddExpense ==
    LET req == Request("POST", <<>>, AuthorizationOf(secureStore),
                       FieldBody(Some(5), Some(<<"a">>), None, IsoDate(0)), EmptyQuery)
        pl == Pipeline(req, users)
        done == createExpense(nextId, Val(pl.user).id, pl.body, 0)
    IN  /\ nextId <= MaxClientRows
        /\ IF pl.handler = "createExpense"
           THEN /\ expenses' = expenses \cup done.inserted
                /\ nextId' = nextId + Cardinality(done.inserted)
                /\ provider' = IF done.result.answered
                               THEN [provider EXCEPT !.expenses = done.result.resp.rows \o @]
                               ELSE provider
                /\ UNCHANGED secureStore
           ELSE /\ secureStore' = AfterResponse(secureStore, pl.resp.code)
                /\ UNCHANGED <<expenses, nextId, provider>>
        /\ UNCHANGED <<users, inflight, outcome, session>>

\* updateExpense(id, updates): PATCH /expenses/:id and, on its 200, the row
\* merged into the entries of the list that have the id
UpdateExpense ==
    \E id \in TargetIds :
        LET seg == [uuid |-> id]
            req == Request("PATCH", <<seg>>, AuthorizationOf(secureStore),
                           FieldBody(Some(7), None, None, None), EmptyQuery)
            pl == Pipeline(req, users)
            check == updateExpenseCheck(expenses, Val(pl.user).id, seg)
            result == updateExpenseResult(expenses, seg, pl.body)
        IN  IF pl.handler = "updateExpense"
            THEN /\ expenses' = IF check.answered
                                THEN TableAfterUpdate(expenses, seg, pl.body) ELSE expenses
                 /\ provider' =
                      IF check.answered /\ result.answered
                      THEN [provider EXCEPT !.expenses =
                               [k \in 1..Len(@) |->
                                   IF @[k].id = id THEN result.resp.rows[1] ELSE @[k]]]
                      ELSE provider
                 /\ UNCHANGED <<users, nextId, inflight, outcome, secureStore, session>>
            ELSE /\ secureStore' = AfterResponse(secureStore, pl.resp.code)
                 /\ UNCHANGED <<users, expenses, nextId, inflight, outcome, session, provider>>

\* deleteExpense(id): DELETE /expenses/:id and, on its 204, the entries of
\* the list that have the id removed
DeleteExpense ==
    \E id \in TargetIds :
        LET seg == [uuid |-> id]
            req == Request("DELETE", <<seg>>, AuthorizationOf(secureStore), EmptyBody,
                           EmptyQuery)
            pl == Pipeline(req, users)
            check == deleteExpenseCheck(expenses, Val(pl.user).id, seg)
        IN  IF pl.handler = "deleteExpense"
            THEN /\ expenses' = IF check.answered THEN TableAfterDelete(expenses, seg)
                                ELSE expenses
                 /\ provider' =
                      IF check.answered
                      THEN [provider EXCEPT !.expenses = SelectSeq(@, LAMBDA e : e.id # id)]
                      ELSE provider
                 /\ UNCHANGED <<users, nextId, inflight, outcome, secureStore, session>>
            ELSE /\ secureStore' = AfterResponse(secureStore, pl.resp.code)
                 /\ UNCHANGED <<users, expenses, nextId, inflight, outcome, session, provider>>

NextProvider ==
    \/ FetchExpenses
    \/ LoadMore
    \/ \E id \in 1..MaxCalls : TimerFires(id)
    \/ \E id \in 1..MaxCalls : TokenRead(id)
    \/ \E id \in 1..MaxCalls : ServerAnswers(id)
    \/ \E id \in 1..MaxCalls : GetReturns(id)
    \/ AddExpense
    \/ UpdateExpense
    \/ DeleteExpense

SpecProvider == InitProvider /\ [][NextProvider]_vars

\* no debounce timer is pending and no GET /expenses is in flight (nor is a
\* call between the two, reading the token)
Quiet == \A id \in 1..MaxCalls : provider.calls[id].pc \notin {"timer", "token", "get"}

\* C26 (as claimed): whenever no GET /expenses is in flight and no debounce
\* timer is pending, isFetching is false, so that a non-forced fetchExpenses
\* made then is not skipped for a fetch in progress.
C26_AsClaimed == Quiet => ~provider.isFetching

-----------------------------------------------------------------------------
(* The debounce wrapper and the calls that wait for it *)

NextDebounce ==
    \/ FetchExpenses
    \/ LoadMore
    \/ \E id \in 1..MaxCalls : TimerFires(id)
    \/ \E id \in 1..MaxCalls : TokenRead(id)
    \/ \E id \in 1..MaxCalls : ServerAnswers(id)
    \/ \E id \in 1..MaxCalls : GetReturns(id)

\* what the runtime does on its own: a timer that was not cleared fires,
\* SecureStore answers, and a GET settles (with the answer, or by the 10 s
\* timeout of axios when the backend does not answer)
Runtime ==
    \E id \in 1..MaxCalls : TimerFires(id) \/ TokenRead(id) \/ GetReturns(id)

SpecDebounce == InitProvider /\ [][NextDebounce]_vars /\ WF_vars(Runtime)

\* the fetchExpenses call was made / has returned or thrown (its finally
\* block has run)
Made(id) == provider.calls[id].pc # "idle"
Finished(id) == provider.calls[id].pc \in {"skipped", "returned", "threw"}

\* C27 (as claimed): every promise the debounce wrapper returns settles, that
\* of a call superseded inside the 300 ms window included, so every
\* fetchExpenses call eventually returns and runs its finally block.
C27_AsClaimed == \A id \in 1..MaxCalls : Made(id) ~> Finished(id)

-----------------------------------------------------------------------------
(* The client's list of expenses *)

\* C28 (as claimed): after any sequence of fetchExpenses, addExpense,
\* updateExpense and deleteExpense calls the client's expenses list holds no
\* two entries with the same id (loading a page p > 1 appends each fetched
\* row once).
C28_AsClaimed ==
    \A i, j \in 1..Len(provider.expenses) :
        i # j => provider.expenses[i].id # provider.expenses[j].id

-----------------------------------------------------------------------------
(* The mobile client's AuthContext, the api module's response interceptor
   and the root route guard.  The route is the group of the screen shown:
   "(auth)" for the login screen, "(app)" for the others. *)

\* the user of a token, as login decodes it from the token's payload
UserOfToken(token) == [id |-> token.id, email |-> token.email]

NoItems == [userToken |-> None, userInfo |-> None]

\* what the device may hold when the app starts: nothing, or the token and
\* user of an earlier login, the token still valid or expired since
StoredAtStart ==
    {NoItems}
        \cup {[userToken |-> Some([kind |-> k, id |-> "u1", email |-> "a@x.io"]),
               userInfo |-> Some([id |-> "u1", email |-> "a@x.io"])] : k \in {"ok", "expired"}}

SessionLoginBodies ==
    {[email |-> [text |-> "a@x.io", wellFormed |-> TRUE], password |-> p] :
        p \in {<<"s", "e", "c", "r", "e", "t">>, <<"p", "w">>}}

SessionRegisterBodies ==
    {[name |-> <<"n">>, email |-> [text |-> e, wellFormed |-> TRUE],
      password |-> <<"s", "e", "c", "r", "e", "t">>] : e \in {"a@x.io", "b@x.io"}}

InitSession ==
    /\ users = {UserRow("u1", "a@x.io")}
    /\ expenses = {}
    /\ nextId = 1
    /\ inflight = EmptyBag
    /\ outcome = NoOutcome
    /\ secureStore \in StoredAtStart
    /\ provider = [expenses |-> <<>>]
    /\ \E platform \in {"web", "native"} :
         session = [platform |-> platform, isLoading |-> TRUE, userToken |-> None,
                    userInfo |-> None, route |-> "(app)",
                    mounting |-> {"bootstrapAsync", "isLoggedIn"},
                    op |-> "none", body |-> None, api |-> None, redirect |-> FALSE]

\* the first mount effect: both items read, and adopted when both are there
BootstrapAsync ==
    /\ "bootstrapAsync" \in session.mounting
    /\ session' = [session EXCEPT
                     !.mounting = @ \ {"bootstrapAsync"},
                     !.userInfo = IF IsSome(secureStore.userToken) /\ IsSome(secureStore.userInfo)
                                  THEN secureStore.userInfo ELSE @,
                     !.userToken = IF IsSome(secureStore.userToken) /\ IsSome(secureStore.userInfo)
                                   THEN secureStore.userToken ELSE @,
                     !.isLoading = FALSE]
    /\ UNCHANGED <<users, expenses, nextId, inflight, outcome, secureStore, provider>>

\* the second mount effect, isLoggedIn: the stored token adopted as it is
IsLoggedIn ==
    /\ "isLoggedIn" \in session.mounting
    /\ session' = [session EXCEPT
                     !.mounting = @ \ {"isLoggedIn"},
                     !.userInfo = IF IsSome(secureStore.userInfo) THEN secureStore.userInfo
                                  ELSE @,
                     !.userToken = secureStore.userToken,
                     !.isLoading = FALSE]
    /\ UNCHANGED <<users, expenses, nextId, inflight, outcome, secureStore, provider>>

\* the user can act: the mount effects are done, no operation of the
\* context is in progress and the screens are shown
Ready == session.mounting = {} /\ session.op = "none" /\ ~session.isLoading

\* login(email, password) up to its await of the POST
LoginStart ==
    /\ Ready /\ session.route = "(auth)"
    /\ \E body \in SessionLoginBodies :
         session' = [session EXCEPT !.op = "login", !.body = Some(body), !.isLoading = TRUE]
    /\ UNCHANGED <<users, expenses, nextId, inflight, outcome, secureStore, provider>>

\* POST /auth/login answers: with a token, which is stored and adopted, or
\* with an error
LoginEnd ==
    LET body == Val(session.body)
        resp == IF validateLogin(body) # <<>> THEN Response(400, "fail", "Validation failed")
                ELSE login(users, body).resp
        granted == resp.code \in 200..299 /\ IsSome(resp.token)
        token == Val(resp.token)
    IN  /\ session.op = "login"
        /\ secureStore' = IF granted
                          THEN [userToken |-> Some(token), userInfo |-> Some(UserOfToken(token))]
                          ELSE secureStore
        /\ session' = [session EXCEPT
                         !.op = "none", !.body = None, !.isLoading = FALSE,
                         !.userToken = IF granted THEN Some(token) ELSE @,
                         !.userInfo = IF granted THEN Some(UserOfToken(token)) ELSE @]
        /\ UNCHANGED <<users, expenses, nextId, inflight, outcome, provider>>

\* register(name, email, password) up to its await of the POST
RegisterStart ==
    /\ Ready /\ session.route = "(auth)"
    /\ \E body \in SessionRegisterBodies :
         session' = [session EXCEPT !.op = "register", !.body = Some(body),
                                    !.isLoading = TRUE]
    /\ UNCHANGED <<users, expenses, nextId, inflight, outcome, secureStore, provider>>

\* POST /auth/register answers: with the new user and a token, which are
\* stored and adopted, or with an error
RegisterEnd ==
    LET body == Val(session.body)
        row == [id |-> UserIdSeq[Cardinality(users) + 1], email |-> body.email.text,
                name |-> body.name, password |-> Hash(body.password)]
        found == registerLookup(users, body)
        resp == IF validateRegister(body) # <<>>
                THEN Response(400, "fail", "Validation failed")
                ELSE IF found.answered THEN found.resp
                ELSE registerInsert(users, row).resp
        granted == resp.code \in 200..299 /\ IsSome(resp.token) /\ IsSome(resp.user)
        token == Val(resp.token)
    IN  /\ session.op = "register"
        /\ users' = IF resp.code = 201 THEN users \cup {row} ELSE users
        /\ secureStore' = IF granted
                          THEN [userToken |-> Some(token), userInfo |-> Some(UserOfToken(token))]
                          ELSE secureStore
        /\ session' = [session EXCEPT
                         !.op = "none", !.body = None, !.isLoading = FALSE,
                         !.userToken = IF granted THEN Some(token) ELSE @,
                         !.userInfo = IF granted THEN Some(UserOfToken(token)) ELSE @]
        /\ UNCHANGED <<expenses, nextId, inflight, outcome, provider>>

\* logout() up to its await of the two deletes
LogoutStart ==
    /\ Ready /\ session.route = "(app)"
    /\ session' = [session EXCEPT !.op = "logout", !.isLoading = TRUE]
    /\ UNCHANGED <<users, expenses, nextId, inflight, outcome, secureStore, provider>>

\* the deletes are done: the state is cleared
LogoutEnd ==
    /\ session.op = "logout"
    /\ secureStore' = NoItems
    /\ session' = [session EXCEPT !.op = "none", !.isLoading = FALSE,
                                  !.userToken = None, !.userInfo = None]
    /\ UNCHANGED <<users, expenses, nextId, inflight, outcome, provider>>

\* a screen or the ExpensesProvider sends a request to /expenses: the
\* request interceptor puts the stored token in its header
ApiStart ==
    /\ session.mounting = {}
    /\ ~IsSome(session.api)
    /\ session' = [session EXCEPT !.api = Some(AuthorizationOf(secureStore))]
    /\ UNCHANGED <<users, expenses, nextId, inflight, outcome, secureStore, provider>>

\* the backend answers the request; on a 401 the response interceptor deletes
\* both items and schedules the redirect with setTimeout(..., 0)
ApiEnd ==
    LET gate == protect(Val(session.api), users)
        code == IF gate.next THEN 200 ELSE gate.resp.code
    IN  /\ IsSome(session.api)
        /\ secureStore' = AfterResponse(secureStore, code)
        /\ session' = [session EXCEPT !.api = None, !.redirect = @ \/ code = 401]
        /\ UNCHANGED <<users, expenses, nextId, inflight, outcome, provider>>

\* the interceptor's timer: router.replace('/(auth)/login') unless the path
\* holds 'login'; where window.location is undefined (the native builds) the
\* callback throws before it redirects
RedirectFires ==
    /\ session.redirect
    /\ session' = [session EXCEPT
                     !.redirect = FALSE,
                     !.route = IF session.platform = "web" THEN "(auth)" ELSE @]
    /\ UNCHANGED <<users, expenses, nextId, inflight, outcome, secureStore, provider>>

\* the effect of RootLayoutNav has a redirect to make
GuardPending ==
    /\ ~session.isLoading
    /\ \/ ~IsSome(session.userToken) /\ session.route # "(auth)"
       \/ IsSome(session.userToken) /\ session.route = "(auth)"

\* the effect of RootLayoutNav: to the login screen without a userToken, to
\* the app with one
RouteGuard ==
    /\ GuardPending
    /\ session' = [session EXCEPT
                     !.route = IF IsSome(session.userToken) THEN "(app)" ELSE "(auth)"]
    /\ UNCHANGED <<users, expenses, nextId, inflight, outcome, secureStore, provider>>

NextSession ==
    \/ BootstrapAsync
    \/ IsLoggedIn
    \/ LoginStart
    \/ LoginEnd
    \/ RegisterStart
    \/ RegisterEnd
    \/ LogoutStart
    \/ LogoutEnd
    \/ ApiStart
    \/ ApiEnd
    \/ RedirectFires
    \/ RouteGuard

SpecSession == InitSession /\ [][NextSession]_vars

\* no mount effect, login, register, logout or API call is in progress, and
\* neither the interceptor's timer nor the route guard has a step to make
Quiescent ==
    /\ session.mounting = {}
    /\ session.op = "none"
    /\ ~IsSome(session.api)
    /\ ~session.redirect
    /\ ~GuardPending

\* C29 (as claimed): in every quiescent state AuthContext.userToken is
\* non-null only if the device holds a userToken; once the interceptor has
\* deleted the stored token, the user is on the login screen.
C29_AsClaimed ==
    Quiescent =>
        /\ IsSome(session.userToken) => IsSome(secureStore.userToken)
        /\ ~IsSome(secureStore.userToken) => session.route = "(auth)"

-----------------------------------------------------------------------------
(* The ExpensesProvider of app/contexts/ExpensesContext.tsx: fetchExpenses
   with the module-level lastFetchTime.  Instants of the client's clock are
   in ms. *)

CACHE_DURATION == 30000
\* a non-forced call within this many ms of the last fetch is dropped
RapidWindow == 1000

\* fetchExpenses calls in a run
MaxFetches == 3
\* Date.now() at the start of a run, its step and its last value
ClockStart == 40000
ClockStep == 500
ClockEnd == 41500

NoFetch == [pc |-> "idle", force |-> FALSE, auth |-> None]

InitCache ==
    /\ users = {UserRow("u1", "a@x.io")}
    /\ expenses \in {{}, {r \in ProviderRows : r.id = 1}}
    /\ nextId = 2
    /\ inflight = EmptyBag
    /\ outcome = NoOutcome
    /\ secureStore \in {[userToken |-> t, userInfo |-> None] :
                           t \in {None, Some(OkToken("u1")),
                                  Some([kind |-> "expired", id |-> "u1"])}}
    /\ session = [userToken |-> None]
    /\ provider = [expenses |-> <<>>, loading |-> FALSE, error |-> FALSE,
                   isFetching |-> FALSE, lastFetchTime |-> 0, now |-> ClockStart,
                   made |-> 0, calls |-> [id \in 1..MaxFetches |-> NoFetch]]

\* the client's clock advances
Tick ==
    /\ provider.now + ClockStep <= ClockEnd
    /\ provider' = [provider EXCEPT !.now = @ + ClockStep]
    /\ UNCHANGED <<users, expenses, nextId, inflight, outcome, secureStore, session>>

\* the three early returns of fetchExpenses(force)
CachedSkips(pr, force) ==
    LET timeSinceLastFetch == pr.now - pr.lastFetchTime
        dataIsFresh == timeSinceLastFetch < CACHE_DURATION
    IN  \/ pr.isFetching /\ ~force
        \/ ~force /\ dataIsFresh /\ Len(pr.expenses) > 0
        \/ timeSinceLastFetch < RapidWindow /\ ~force

\* fetchExpenses(force) up to its await of getItemAsync: the call returns at
\* once when it is skipped; otherwise it sets the flag and loading
CachedFetch(force) ==
    LET id == provider.made + 1 IN
    /\ provider.made < MaxFetches
    /\ provider' =
         IF CachedSkips(provider, force)
         THEN [provider EXCEPT !.made = id, !.calls[id].pc = "skipped",
                               !.calls[id].force = force]
         ELSE [provider EXCEPT !.made = id, !.calls[id].pc = "token",
                               !.calls[id].force = force,
                               !.isFetching = TRUE, !.loading = TRUE, !.error = FALSE]
    /\ UNCHANGED <<users, expenses, nextId, inflight, outcome, secureStore, session>>

\* a caller of fetchExpenses: the mount effect and the screens without
\* force, a refresh with force
CachedFetchExpenses == \E force \in BOOLEAN : CachedFetch(force)

\* the provider after the catch and finally blocks of a call
AfterCachedFailed(pr) == [pr EXCEPT !.error = TRUE, !.isFetching = FALSE, !.loading = FALSE]

\* getItemAsync resolves: without a token the call throws, with one the GET
\* is sent, the request interceptor putting the stored token in its header
CachedTokenRead(id) ==
    /\ provider.calls[id].pc = "token"
    /\ provider' =
         IF IsSome(secureStore.userToken)
         THEN [provider EXCEPT !.calls[id].pc = "get",
                               !.calls[id].auth = AuthorizationOf(secureStore)]
         ELSE [AfterCachedFailed(provider) EXCEPT !.calls[id].pc = "threw"]
    /\ UNCHANGED <<users, expenses, nextId, inflight, outcome, secureStore, session>>

\* the GET /expenses of a call settles: the backend's answer arrives, or
\* the network fails or the 10 s timeout of axios passes; then the finally
\* block
CachedGetReturns(id) ==
    LET call == provider.calls[id]
        req == Request("GET", <<>>, call.auth, EmptyBody, EmptyQuery)
        resp == ServerAnswer(req, expenses, users)
    IN  /\ call.pc = "get"
        /\ \E arrived \in BOOLEAN :
             /\ provider' =
                  IF arrived /\ resp.code \in 200..299
                  THEN [provider EXCEPT !.calls[id].pc = "returned",
                                        !.lastFetchTime = provider.now,
                                        !.expenses = resp.rows,
                                        !.isFetching = FALSE,
                                        !.loading = FALSE]
                  ELSE [AfterCachedFailed(provider) EXCEPT !.calls[id].pc = "threw"]
             /\ secureStore' = IF arrived THEN AfterResponse(secureStore, resp.code)
                               ELSE secureStore
        /\ UNCHANGED <<users, expenses, nextId, inflight, outcome, session>>

NextCache ==
    \/ Tick
    \/ CachedFetchExpenses
    \/ \E id \in 1..MaxFetches : CachedTokenRead(id)
    \/ \E id \in 1..MaxFetches : CachedGetReturns(id)

SpecCache == InitCache /\ [][NextCache]_vars

\* the calls of fetchExpenses that are past the early returns and not done
FetchesInFlight == {id \in 1..MaxFetches : provider.calls[id].pc \in {"token", "get"}}

\* C30 (as claimed): isFetching is true whenever a GET /expenses issued by
\* fetchExpenses is in flight, and at most one non-forced fetch is in flight
\* at any time.
C30_AsClaimed ==
    /\ (\E id \in 1..MaxFetches : provider.calls[id].pc = "get") => provider.isFetching
    /\ Cardinality({id \in FetchesInFlight : ~provider.calls[id].force}) <= 1

====
